---- MODULE Spec2Model ----
(***************************************************************************)
(* A model of the retrieval-augmented query pipeline of the RAG chat      *)
(* backend: the generation adapter (GeminiService), the vector index      *)
(* adapter (VectorStoreService), the embedding adapter (EmbeddingService) *)
(* and the pipeline that composes them (RagService).                      *)
(*                                                                         *)
(* Every `await` of the source is a suspension point: an action ends at   *)
(* an await and the next action of the same call resumes it, so that the  *)
(* other calls of the event loop interleave exactly there.                *)
(***************************************************************************)
EXTENDS Integers, Sequences, FiniteSets, TLC

\* ------------------------------------------------------------ bounds -----

\* Number of concurrently issued calls (pipeline calls, or direct calls of
\* the generation adapter).
NumCalls == 2

\* Largest number of chunks one model stream yields.
MaxChunks == 2

\* Number of pipeline calls (RagService) in the pipeline specification.
NumQueries == 1

\* Number of distinct documents the ingestion can add to the index.
MaxDocs == 2

\* Largest number of results one scored query answer has.
MaxResults == 3

\* Largest distance the server reports, in halves.
MaxDistance == 3

\* Number of messages appended to the chat history.
MaxMessages == 3
MaxTextLen == 2
MaxEmbedCalls == 2
MaxRuns == 2

\* ---------------------------------------------------- program constants --

\* config.vectorSearch.topK (TOP_K_RESULTS defaults to 5).
DefaultTopK == 5

\* this.modelNames has three entries.
NumModels == 3

\* retryWithBackoff's default maxRetries.
maxRetries == 3

\* validateMessage: isLength({ min: 1, max: 1000 }).
MessageLimit == 1000

\* addMessage keeps the last 100 messages (lTrim 0 99).
RetainedMessages == 100

Calls == 1..NumCalls
Models == 0..(NumModels - 1)
Queries == 1..NumQueries
Docs == 1..MaxDocs

\* ------------------------------------------------------------ state ------

VARIABLES
    currentModelIndex,  \* GeminiService.currentModelIndex
    requestQueue,       \* GeminiService.requestQueue: the chained bodies, oldest first
    call,               \* per call: the frame of its retryWithBackoff body
    outcome,            \* per call: how the promise retryWithBackoff returned is settled
    obs,                \* per call: history of what the call did (observation only)
    useCloud,           \* config.chroma.useCloud
    collection,         \* VectorStoreService.collection: "null", or a handle
    newsCollection,     \* chroma.ts newsCollection: the cached cloud handle
    backend,            \* the Chroma server: reachable, the collection, its documents
    search,             \* per call: the frame of its searchSimilar
    admin,              \* the ingestion side: the frame of its current operation
    rag,                \* per pipeline call: the frame of processQuery / processStreamQuery
    chat,               \* per request: the frame of the ChatController handler
    sink,               \* per request: the events written to its response / socket
    uuids,              \* number of uuidv4() values drawn so far
    connected,          \* RedisClient.connected
    store,              \* the Redis list chat:<session>, head first
    fetched,            \* what the last getMessages returned, and for which limit
    scoring,            \* the distances of the last answered query and the scores given
    adding,             \* per call: the frame of its RedisClient.addMessage
    appended,           \* every message lPush has put on the list, newest first (history)
    embeddings,         \* per text: the vectors the local embedding has returned for it
    ingest,             \* the frame of NewsIngestionService's current run
    processedArticles,  \* NewsIngestionService.processedArticles
    outlet,             \* per call: the chunks its socket received, and whether emit threw
    probe,              \* the frame of GeminiService.testConnection
    sessions,           \* SessionManager: the session record in Redis and the calls on it
    cron,               \* CronService: its fields and the frame of its current run
    timer               \* CronService: the scheduled job, the clock and the next run time

genVars == <<currentModelIndex, requestQueue, call, outcome, obs>>

idxVars == <<useCloud, collection, newsCollection, backend, search, admin>>

chatVars == <<chat, sink, uuids, connected, store>>

resultVars == <<fetched, scoring>>

lateVars == <<probe, sessions, cron, timer>>

moreVars == <<adding, appended, embeddings, ingest, processedArticles, outlet, lateVars>>

vars == <<genVars, idxVars, rag, chatVars, resultVars, moreVars>>

\* ------------------------------------------------------------ values -----

NoError == [kind |-> "none", model |-> 0, attempt |-> 0]

\* The error thrown by attempt number `a` on model `m`; `k` is "retryable"
\* (the message holds 503 / overloaded / rate limit / quota / 429) or
\* "terminal".
ModelError(k, m, a) == [kind |-> k, model |-> m, attempt |-> a]

ErrorKinds == {"retryable", "terminal"}

\* response.text() of a batch request to model m.
ModelText(m) == <<m>>

Pending == [status |-> "pending", text |-> <<>>, error |-> NoError]
Resolved(t) == [status |-> "ok", text |-> t, error |-> NoError]
Rejected(e) == [status |-> "err", text |-> <<>>, error |-> e]

IdleFrame ==
    [pc |-> "idle", kind |-> "generate", modelIndex |-> 0, attempt |-> 0,
     actualModelIndex |-> 0, lastError |-> NoError, fullResponse |-> <<>>]

\* The frame of a body that has returned: its locals are gone.
SettledFrame(k) == [IdleFrame EXCEPT !.pc = "settled", !.kind = k]

\* History of a call (observation only, read by no action's guard):
\*   roundAttempts  operation invocations of the current round on one model
\*   roundClean     every failure of the current round was retryable
\*   attempted      models an operation was invoked on
\*   exhausted      models whose round ended in failure
\*   firstModel     the model of the call's first attempt
\*   succeeded      the model whose attempt returned the result
\*   aborted        the latest answer to the call was a stream that threw
\*                  after at least one chunk had been emitted
\*   started        the call's rank among the bodies started so far
NoObs ==
    [roundAttempts |-> 0, roundClean |-> TRUE,
     attempted |-> {}, exhausted |-> {}, firstModel |-> {}, succeeded |-> {},
     aborted |-> FALSE, started |-> 0]

\* ------------------------------------------------- GeminiService ---------

\* Candidate models taken in descending order.
ActualModelIndexDescending(cur, mi) == (cur + NumModels - mi) % NumModels

\* for (modelIndex ...) : actualModelIndex
ActualModelIndex(cur, mi) == (cur + mi) % NumModels

\* isRetryableError
IsRetryableError(e) == e.kind = "retryable"

\* A catch block that gives up a model one attempt early.
BreakOneEarly(att, e) == att = maxRetries - 1 \/ ~IsRetryableError(e)

\* A catch block that gives up a model after its last attempt only.
BreakOnLastOnly(att, e) == att = maxRetries

\* A catch block that gives a model one attempt more.
BreakOneLate(att, e) == att = maxRetries + 1 \/ ~IsRetryableError(e)

\* The two `break`s of the catch block: the last attempt, or a non-retryable
\* error.
ShouldBreak(att, e) == att = maxRetries \/ ~IsRetryableError(e)

\* A catch block that keeps the first error it saw.
KeepFirstError(prev, e) == IF prev = NoError THEN e ELSE prev

\* lastError = error
RecordError(prev, e) == e

\* A success that leaves the preference alone.
KeepPreferred(cur, m) == cur

\* this.currentModelIndex = actualModelIndex
PreferredAfterSuccess(cur, m) == m

\* Bodies that do not wait for the bodies chained before them.
CanStartUnchained(c) == call[c].pc = "queued"

\* Bodies started last-chained first, one at a time.
CanStartLast(c) ==
    /\ call[c].pc = "queued"
    /\ requestQueue # <<>>
    /\ requestQueue[Len(requestQueue)] = c
    /\ \A d \in Calls : call[d].pc \in {"idle", "queued", "settled"}

\* this.requestQueue.then(body): body runs once every body chained before it
\* has finished.
CanStart(c) ==
    /\ call[c].pc = "queued"
    /\ requestQueue # <<>>
    /\ Head(requestQueue) = c

\* operation(model, modelName) is invoked: the request to the model is sent
\* synchronously, the body suspends on its answer.
Invoke(f, m, att) ==
    [f EXCEPT !.pc = "inflight", !.actualModelIndex = m, !.attempt = att,
              !.fullResponse = <<>>]

ObsInvoke(o, m, newRound) ==
    [o EXCEPT !.roundAttempts = IF newRound THEN 1 ELSE @ + 1,
              !.roundClean = IF newRound THEN TRUE ELSE @,
              !.attempted = @ \cup {m},
              !.firstModel = IF o.attempted = {} THEN {m} ELSE @]

ObsFailure(o, e, wasAborted) ==
    [o EXCEPT !.roundClean = @ /\ e.kind = "retryable", !.aborted = wasAborted]

ObsRoundEnd(o, m) == [o EXCEPT !.exhausted = @ \cup {m}]

\* The body is over: the rounds are.
ObsSettled(o) == [o EXCEPT !.roundAttempts = 0, !.roundClean = TRUE]

\* A chain whose link stays unsettled when the body rejected its caller.
StaysChainedWhenRejected(q, c) ==
    IF outcome'[c].status = "err" THEN q ELSE SelectSeq(q, LAMBDA d : d # c)

\* The body returned or threw: the promise of the chain settles and the body
\* chained next may start.
Unchain(q, c) == SelectSeq(q, LAMBDA d : d # c)

\* retryWithBackoff is called: the body is chained to the queue.
Enqueue(c, k) ==
    /\ call[c].pc = "idle"
    /\ call' = [call EXCEPT ![c] = [IdleFrame EXCEPT !.pc = "queued", !.kind = k]]
    /\ requestQueue' = Append(requestQueue, c)
    /\ UNCHANGED <<currentModelIndex, outcome, obs>>

\* The body of call c starts: first model, first attempt.
StartBody(c) ==
    /\ CanStart(c)
    /\ LET m == ActualModelIndex(currentModelIndex, 0)
       IN /\ call' = [call EXCEPT ![c] =
                        Invoke([@ EXCEPT !.modelIndex = 0, !.lastError = NoError], m, 0)]
          /\ obs' = [obs EXCEPT ![c] =
                        [ObsInvoke(@, m, TRUE) EXCEPT
                           !.started = Cardinality({d \in Calls : obs[d].started > 0}) + 1]]
    /\ UNCHANGED <<currentModelIndex, requestQueue, outcome>>

\* The attempt succeeded with result t: the preference is updated, the
\* promise resolved, the body returns and the next body may start.
Succeed(c, t, wasAborted) ==
    /\ currentModelIndex' = PreferredAfterSuccess(currentModelIndex, call[c].actualModelIndex)
    /\ outcome' = [outcome EXCEPT ![c] = Resolved(t)]
    /\ call' = [call EXCEPT ![c] = SettledFrame(@.kind)]
    /\ requestQueue' = Unchain(requestQueue, c)
    /\ obs' = [obs EXCEPT ![c] =
                  [ObsSettled(@) EXCEPT !.succeeded = {call[c].actualModelIndex},
                                        !.aborted = wasAborted]]

\* The catch block of an attempt that threw e, up to the next suspension
\* point: wait and retry, or the next model's first attempt, or reject.
HandleFailure(c, e, wasAborted) ==
    LET f == [call[c] EXCEPT !.lastError = RecordError(@, e)]
        o == ObsFailure(obs[c], e, wasAborted)
    IN IF ShouldBreak(f.attempt, e)
       THEN IF f.modelIndex + 1 < NumModels
            THEN LET m == ActualModelIndex(currentModelIndex, f.modelIndex + 1)
                 IN /\ call' = [call EXCEPT ![c] =
                                  Invoke([f EXCEPT !.modelIndex = @ + 1], m, 0)]
                    /\ obs' = [obs EXCEPT ![c] =
                                  ObsInvoke(ObsRoundEnd(o, f.actualModelIndex), m, TRUE)]
                    /\ UNCHANGED <<currentModelIndex, requestQueue, outcome>>
            ELSE /\ call' = [call EXCEPT ![c] = SettledFrame(f.kind)]
                 /\ obs' = [obs EXCEPT ![c] =
                               ObsSettled(ObsRoundEnd(o, f.actualModelIndex))]
                 /\ outcome' = [outcome EXCEPT ![c] = Rejected(f.lastError)]
                 /\ requestQueue' = Unchain(requestQueue, c)
                 /\ UNCHANGED currentModelIndex
       ELSE /\ call' = [call EXCEPT ![c] = [f EXCEPT !.pc = "backoff"]]
            /\ obs' = [obs EXCEPT ![c] = o]
            /\ UNCHANGED <<currentModelIndex, requestQueue, outcome>>

\* An operation that returns what it has streamed when the stream throws.
StreamCatchReturnsPartial(c, e) ==
    Succeed(c, call[c].fullResponse, call[c].fullResponse # <<>>)

\* catch (error) { throw error } of generateStreamResponse: the error of the
\* stream is rethrown to retryWithBackoff.
StreamCatch(c, e) == HandleFailure(c, e, call[c].fullResponse # <<>>)

\* generateResponse / generateStreamResponse called directly on the adapter.
Submit(c, k) == Enqueue(c, k)

\* generateResponse's operation: model.generateContent answered.
ContentReturns(c) ==
    /\ call[c].pc = "inflight"
    /\ call[c].kind = "generate"
    /\ Succeed(c, ModelText(call[c].actualModelIndex), FALSE)

\* model.generateContent / generateContentStream threw.
RequestFails(c, k) ==
    /\ call[c].pc = "inflight"
    /\ HandleFailure(c, ModelError(k, call[c].actualModelIndex, call[c].attempt), FALSE)

\* setTimeout(resolveDelay, delay) fired: the next attempt on the same model.
BackoffElapses(c) ==
    /\ call[c].pc = "backoff"
    /\ call' = [call EXCEPT ![c] = Invoke(@, @.actualModelIndex, @.attempt + 1)]
    /\ obs' = [obs EXCEPT ![c] = ObsInvoke(@, call[c].actualModelIndex, FALSE)]
    /\ UNCHANGED <<currentModelIndex, requestQueue, outcome>>

\* generateStreamResponse's operation: generateContentStream returned the
\* stream.
StreamOpens(c) ==
    /\ call[c].pc = "inflight"
    /\ call[c].kind = "stream"
    /\ call' = [call EXCEPT ![c].pc = "streaming"]
    /\ obs' = [obs EXCEPT ![c].aborted = FALSE]
    /\ UNCHANGED <<currentModelIndex, requestQueue, outcome>>

\* for await (const chunk of result.stream): one chunk with a text.  (A
\* chunk whose text is empty is skipped by `if (chunkText)` and changes
\* nothing.)
StreamChunk(c) ==
    /\ call[c].pc = "streaming"
    /\ Len(call[c].fullResponse) < MaxChunks
    /\ call' = [call EXCEPT ![c].fullResponse = Append(@, call[c].actualModelIndex)]
    /\ UNCHANGED <<currentModelIndex, requestQueue, outcome, obs>>

\* The stream ended: return fullResponse.
StreamEnds(c) ==
    /\ call[c].pc = "streaming"
    /\ Succeed(c, call[c].fullResponse, FALSE)

\* The stream threw while it was iterated.
StreamErrors(c, k) ==
    /\ call[c].pc = "streaming"
    /\ StreamCatch(c, ModelError(k, call[c].actualModelIndex, call[c].attempt))

GenStep(c) ==
    \/ ContentReturns(c)
    \/ \E k \in ErrorKinds : RequestFails(c, k)
    \/ BackoffElapses(c)
    \/ StreamOpens(c)
    \/ StreamChunk(c)
    \/ StreamEnds(c)
    \/ \E k \in ErrorKinds : StreamErrors(c, k)

\* ------------------------------------------------ the Chroma server -----

\* A handle is "null" (no collection object), "live" (the collection object
\* of the collection the server holds) or "stale" (the collection object of
\* a collection that has been deleted since).

\* The server answers a request made through handle h (else the request
\* throws).
Answers(h) == backend.up /\ h = "live"

\* deleteCollection: the collection objects obtained before it no longer
\* name a collection.
Stale(h) == IF h = "live" THEN "stale" ELSE h

\* getOrCreateCollection, answered: the collection exists afterwards, empty
\* if it had to be created.
GetOrCreate(b) == [b EXCEPT !.exists = TRUE, !.docs = IF b.exists THEN @ ELSE {}]

RECURSIVE Ranked(_)
\* The documents of the collection by increasing distance to the query.
Ranked(S) ==
    IF S = {} THEN <<>>
    ELSE LET d == CHOOSE x \in S : \A y \in S : x <= y
         IN <<d>> \o Ranked(S \ {d})

\* collection.query({queryEmbeddings, nResults}): results.ids[0].
QueryIds(docs, nResults) ==
    LET r == Ranked(docs)
    IN SubSeq(r, 1, IF Len(r) < nResults THEN Len(r) ELSE nResults)

\* The server stops or starts answering.
BackendFlip ==
    /\ backend' = [backend EXCEPT !.up = ~@]
    /\ UNCHANGED <<useCloud, collection, newsCollection, search, admin>>

\* ------------------------------------------------ VectorStoreService -----

\* getFallbackResponse: one synthetic result (articleId 0 stands for
\* 'fallback-001').
FallbackResponse == <<[articleId |-> 0, source |-> "System Message"]>>

\* The loop that builds searchResults from results.ids[0].
ToSearchResults(ids) == [i \in 1..Len(ids) |-> [articleId |-> ids[i], source |-> "article"]]

\* initialize() touches the server unless getNewsCollection has a cached
\* collection.
InitializeAsksServer == ~useCloud \/ newsCollection = "null"

\* this.collection after initialize(): the collection obtained, or null when
\* the connection failed (the catch block).
InitializedHandle ==
    IF InitializeAsksServer
    THEN IF backend.up THEN "live" ELSE "null"
    ELSE newsCollection

\* chroma.ts newsCollection after initialize().
InitializedCache ==
    IF useCloud /\ newsCollection = "null" /\ backend.up THEN "live" ELSE newsCollection

\* The server after initialize().
InitializedBackend ==
    IF InitializeAsksServer /\ backend.up THEN GetOrCreate(backend) ELSE backend

\* initialize(), from the answer of its connection attempt on.
Initialize ==
    /\ collection' = InitializedHandle
    /\ newsCollection' = InitializedCache
    /\ backend' = InitializedBackend

IdleSearch ==
    [pc |-> "idle", handle |-> "null", embedding |-> "none", result |-> <<>>,
     count |-> {}, reconnects |-> 0, foundNull |-> FALSE,
     sawUnavailable |-> FALSE, reached |-> FALSE]

\* return searchResults / return this.getFallbackResponse(queryText)
SearchReturn(f, r) == [f EXCEPT !.pc = "done", !.result = r, !.handle = "null"]

\* A searchSimilar whose catch block rethrows.
SearchRethrows(f) == [f EXCEPT !.pc = "threw", !.handle = "null"]

\* The catch block of searchSimilar: the fallback response.
SearchCaught(f) == SearchReturn(f, FallbackResponse)

\* An emptiness check that lets every count through.
NeverEmpty(n) == FALSE

\* if (count === 0)
IsEmptyCount(n) == n = 0

\* A search that answers [] while the index is unavailable.
UnavailableEmpty(f) == SearchReturn([f EXCEPT !.sawUnavailable = TRUE], <<>>)

\* if (!this.collection) return this.getFallbackResponse(queryText)
Unavailable(f) == SearchReturn([f EXCEPT !.sawUnavailable = TRUE], FallbackResponse)

\* searchSimilar up to its first await: a reconnection if there is no
\* collection, else the embedding of the query.
SearchBegin(s) ==
    /\ search[s].pc = "idle"
    /\ search' = [search EXCEPT ![s] =
                    IF collection = "null"
                    THEN [@ EXCEPT !.pc = "initialize", !.reconnects = @ + 1,
                                   !.foundNull = TRUE]
                    ELSE [@ EXCEPT !.pc = "embedding"]]
    /\ UNCHANGED <<useCloud, collection, newsCollection, backend, admin>>

\* searchSimilar called directly on the adapter.
SearchSimilar(s) == SearchBegin(s)

\* await this.initialize() returned; without a collection the fallback
\* response is returned, else the query is embedded.
SearchInitializeReturns(s) ==
    /\ search[s].pc = "initialize"
    /\ Initialize
    /\ search' = [search EXCEPT ![s] =
                    IF InitializedHandle = "null"
                    THEN Unavailable(@)
                    ELSE [@ EXCEPT !.pc = "embedding",
                                   !.reached = InitializeAsksServer]]
    /\ UNCHANGED <<useCloud, admin>>

\* embeddingService.generateEmbedding returned (the provider's vector, or
\* the local one when there is no key or the provider failed); then
\* getDocumentCount up to its await.
SearchEmbeddingReturns(s, by) ==
    /\ search[s].pc = "embedding"
    /\ search' = [search EXCEPT ![s] =
                    LET f == [@ EXCEPT !.embedding = by]
                    IN IF collection = "null"
                       THEN IF IsEmptyCount(0)
                            THEN SearchReturn([f EXCEPT !.count = {0}], FallbackResponse)
                            ELSE SearchCaught([f EXCEPT !.count = {0}])
                       ELSE [f EXCEPT !.pc = "count", !.handle = collection]]
    /\ UNCHANGED <<useCloud, collection, newsCollection, backend, admin>>

\* collection.count() answered or threw (then getDocumentCount returns 0);
\* an empty collection gives the fallback response, else the query is sent.
SearchCountReturns(s) ==
    /\ search[s].pc = "count"
    /\ LET n == IF Answers(search[s].handle) THEN Cardinality(backend.docs) ELSE 0
           f == [search[s] EXCEPT !.count = {n},
                                  !.reached = @ \/ Answers(search[s].handle)]
       IN search' = [search EXCEPT ![s] =
                        IF IsEmptyCount(n) THEN SearchReturn(f, FallbackResponse)
                        ELSE IF collection = "null" THEN SearchCaught(f)
                        ELSE [f EXCEPT !.pc = "query", !.handle = collection]]
    /\ UNCHANGED <<useCloud, collection, newsCollection, backend, admin>>

\* collection.query answered (its ids become the results, none if it gave
\* no ids) or threw (the catch block).
SearchQueryReturns(s) ==
    /\ search[s].pc = "query"
    /\ search' = [search EXCEPT ![s] =
                    IF Answers(@.handle)
                    THEN SearchReturn([@ EXCEPT !.reached = TRUE],
                                      ToSearchResults(QueryIds(backend.docs, DefaultTopK)))
                    ELSE SearchCaught(@)]
    /\ UNCHANGED <<useCloud, collection, newsCollection, backend, admin>>

SearchStep(s) ==
    \/ SearchInitializeReturns(s)
    \/ \E by \in {"provider", "local"} : SearchEmbeddingReturns(s, by)
    \/ SearchCountReturns(s)
    \/ SearchQueryReturns(s)

\* ---------------------------------------- the ingestion side of the index --

IdleAdmin ==
    [pc |-> "idle", handle |-> "null", ids |-> {}, doc |-> 0, result |-> "none",
     deleteFailed |-> FALSE]

AdminReturns(r) == [IdleAdmin EXCEPT !.result = r]

\* vectorStoreService.initialize() is called (start-up, ingestion).
InitializeCalled ==
    /\ admin.pc = "idle"
    /\ admin' = [IdleAdmin EXCEPT !.pc = "initialize"]
    /\ UNCHANGED <<useCloud, collection, newsCollection, backend, search>>

\* It returns; it never throws.
InitializeReturns ==
    /\ admin.pc = "initialize"
    /\ Initialize
    /\ admin' = AdminReturns("ok")
    /\ UNCHANGED <<useCloud, search>>

\* addDocument(vector): collection.add is sent; without a collection the
\* call throws at once.
AddDocument(d) ==
    /\ admin.pc = "idle"
    /\ admin' = IF collection = "null" THEN AdminReturns("threw")
                ELSE [IdleAdmin EXCEPT !.pc = "add", !.handle = collection, !.doc = d]
    /\ UNCHANGED <<useCloud, collection, newsCollection, backend, search>>

\* collection.add answered or threw (the error is rethrown).
AddReturns ==
    /\ admin.pc = "add"
    /\ IF Answers(admin.handle)
       THEN /\ backend' = [backend EXCEPT !.docs = @ \cup {admin.doc}]
            /\ admin' = AdminReturns("ok")
       ELSE /\ admin' = AdminReturns("threw")
            /\ UNCHANGED backend
    /\ UNCHANGED <<useCloud, collection, newsCollection, search>>

\* clearCollection once this.collection is h: the cloud variant reads all
\* ids through it, the local variant deletes the collection by name.
ClearProceeds(h) ==
    IF useCloud
    THEN IF h = "null" THEN AdminReturns("threw")
         ELSE [IdleAdmin EXCEPT !.pc = "clear-get", !.handle = h]
    ELSE [IdleAdmin EXCEPT !.pc = "clear-delete"]

\* clearCollection is called.
ClearCollection ==
    /\ admin.pc = "idle"
    /\ admin' = IF collection = "null"
                THEN [IdleAdmin EXCEPT !.pc = "clear-initialize"]
                ELSE ClearProceeds(collection)
    /\ UNCHANGED <<useCloud, collection, newsCollection, backend, search>>

\* Its await this.initialize() returned.
ClearInitializeReturns ==
    /\ admin.pc = "clear-initialize"
    /\ Initialize
    /\ admin' = ClearProceeds(InitializedHandle)
    /\ UNCHANGED <<useCloud, search>>

\* collection.get() answered or threw; the ids found are deleted next.
ClearGetReturns ==
    /\ admin.pc = "clear-get"
    /\ admin' = IF ~Answers(admin.handle) THEN AdminReturns("threw")
                ELSE IF backend.docs = {} THEN AdminReturns("ok")
                ELSE [admin EXCEPT !.pc = "clear-delete-ids", !.ids = backend.docs]
    /\ UNCHANGED <<useCloud, collection, newsCollection, backend, search>>

\* collection.delete({ids}) answered or threw.
ClearDeleteIdsReturns ==
    /\ admin.pc = "clear-delete-ids"
    /\ IF Answers(admin.handle)
       THEN /\ backend' = [backend EXCEPT !.docs = @ \ admin.ids]
            /\ admin' = AdminReturns("ok")
       ELSE /\ admin' = AdminReturns("threw")
            /\ UNCHANGED backend
    /\ UNCHANGED <<useCloud, collection, newsCollection, search>>

\* client.deleteCollection answered or threw (the error is only logged);
\* the collection is recreated by initialize() next.
ClearDeleteCollectionReturns ==
    /\ admin.pc = "clear-delete"
    /\ IF backend.up /\ backend.exists
       THEN /\ backend' = [backend EXCEPT !.exists = FALSE, !.docs = {}]
            /\ collection' = Stale(collection)
            /\ search' = [s \in Calls |-> [search[s] EXCEPT !.handle = Stale(@)]]
       ELSE UNCHANGED <<backend, collection, search>>
    /\ admin' = [IdleAdmin EXCEPT !.pc = "clear-recreate", !.deleteFailed = ~backend.up]
    /\ UNCHANGED <<useCloud, newsCollection>>

\* The recreating initialize() returned: clearCollection returns.
ClearRecreateReturns ==
    /\ admin.pc = "clear-recreate"
    /\ Initialize
    /\ admin' = AdminReturns("ok")
    /\ UNCHANGED <<useCloud, search>>

IngestionStep ==
    \/ InitializeCalled
    \/ InitializeReturns
    \/ \E d \in Docs : AddDocument(d)
    \/ AddReturns
    \/ ClearCollection
    \/ ClearInitializeReturns
    \/ ClearGetReturns
    \/ ClearDeleteIdsReturns
    \/ ClearDeleteCollectionReturns
    \/ ClearRecreateReturns

\* addBatchDocuments(vectors): collection.add is sent; without a collection
\* the call throws at once.
AddBatchDocuments(D) ==
    /\ admin.pc = "idle"
    /\ admin' = IF collection = "null" THEN AdminReturns("threw")
                ELSE [IdleAdmin EXCEPT !.pc = "add-batch", !.handle = collection, !.ids = D]
    /\ UNCHANGED <<useCloud, collection, newsCollection, backend, search>>

\* Its collection.add answered or threw (the error is rethrown).
AddBatchReturns ==
    /\ admin.pc = "add-batch"
    /\ IF Answers(admin.handle)
       THEN /\ backend' = [backend EXCEPT !.docs = @ \cup admin.ids]
            /\ admin' = AdminReturns("ok")
       ELSE /\ admin' = AdminReturns("threw")
            /\ UNCHANGED backend
    /\ UNCHANGED <<useCloud, collection, newsCollection, search>>

\* deleteDocument(id): collection.delete is sent; without a collection the
\* call throws at once.
DeleteDocument(d) ==
    /\ admin.pc = "idle"
    /\ admin' = IF collection = "null" THEN AdminReturns("threw")
                ELSE [IdleAdmin EXCEPT !.pc = "delete", !.handle = collection, !.doc = d]
    /\ UNCHANGED <<useCloud, collection, newsCollection, backend, search>>

\* Its collection.delete answered or threw (the error is rethrown).
DeleteReturns ==
    /\ admin.pc = "delete"
    /\ IF Answers(admin.handle)
       THEN /\ backend' = [backend EXCEPT !.docs = @ \ {admin.doc}]
            /\ admin' = AdminReturns("ok")
       ELSE /\ admin' = AdminReturns("threw")
            /\ UNCHANGED backend
    /\ UNCHANGED <<useCloud, collection, newsCollection, search>>

\* The operations of the adapter the ingestion scripts use besides
\* IngestionStep.
MaintenanceStep ==
    \/ \E D \in (SUBSET Docs) \ {{}} : AddBatchDocuments(D)
    \/ AddBatchReturns
    \/ \E d \in Docs : DeleteDocument(d)
    \/ DeleteReturns

\* ------------------------------------------------------- RagService ------

NoResponse == [response |-> <<>>, sources |-> <<>>]

IdleRag ==
    [pc |-> "idle", kind |-> "generate", searchResults |-> <<>>,
     response |-> NoResponse, error |-> NoError]

\* A pipeline that answers without its sources.
NoSources(p) == <<>>

\* sources: searchResults
ResponseSources(p) == rag[p].searchResults

\* processQuery (k = "generate") / processStreamQuery (k = "stream") is
\* called: searchSimilar(message) up to its first await.
ProcessQuery(p, k) ==
    /\ rag[p].pc = "idle"
    /\ rag' = [rag EXCEPT ![p] = [IdleRag EXCEPT !.pc = "search", !.kind = k]]
    /\ SearchBegin(p)
    /\ UNCHANGED genVars

\* A pipeline that does not wait for the search.
SearchNotAwaited(p) == TRUE

\* const searchResults = await vectorStoreService.searchSimilar(message)
SearchAwaited(p) == search[p].pc \in {"done", "threw"}

\* await searchSimilar returned: generateResponse / generateStreamResponse
\* is called with the results.  (Had it thrown, the pipeline would rethrow.)
RagGenerate(p) ==
    /\ rag[p].pc = "search"
    /\ SearchAwaited(p)
    /\ IF search[p].pc = "threw"
       THEN /\ rag' = [rag EXCEPT ![p].pc = "failed"]
            /\ UNCHANGED genVars
       ELSE /\ Enqueue(p, rag[p].kind)
            /\ rag' = [rag EXCEPT ![p].pc = "generate",
                                  ![p].searchResults = search[p].result]
    /\ UNCHANGED idxVars

\* The generation call settled: the response is assembled, or the error
\* rethrown.
RagReturns(p) ==
    /\ rag[p].pc = "generate"
    /\ call[p].pc = "settled"
    /\ rag' = [rag EXCEPT ![p] =
                 IF outcome[p].status = "ok"
                 THEN [@ EXCEPT !.pc = "done",
                                !.response = [response |-> outcome[p].text,
                                              sources |-> ResponseSources(p)]]
                 ELSE [@ EXCEPT !.pc = "failed", !.error = outcome[p].error]]
    /\ UNCHANGED <<genVars, idxVars>>

\* ---------------------------------------------------- ChatController -----

Transports == {"rest", "sse", "socket"}

\* A message: `lead` whitespace characters followed by `body` other
\* characters.
Messages == [lead : {0, 1}, body : {0, 1, MessageLimit + 1}]

\* validateMessage: body('message').trim().isLength({ min: 1, max: 1000 })
RouteAccepts(msg) == 1 <= msg.body /\ msg.body <= MessageLimit

\* .trim() of the validation chain: the handler reads the sanitized body.
Trimmed(msg) == [msg EXCEPT !.lead = 0]

\* The message the handler of transport t reads.
HandlerMessage(t, msg) == IF t = "socket" THEN msg ELSE Trimmed(msg)

\* if (!message)
Falsy(msg) == msg.lead + msg.body = 0

\* The request reaches the handler's session step: the REST and SSE routes
\* run validateMessage first, the socket event goes to the handler directly.
Accepted(t, msg) ==
    IF t = "socket" THEN ~Falsy(msg) ELSE RouteAccepts(msg) /\ ~Falsy(msg)

NoMessage == [lead |-> 0, body |-> 0]

IdleChat ==
    [pc |-> "idle", transport |-> "rest", message |-> NoMessage,
     userMessageId |-> {}, assistantMessageId |-> {}, chunksLeft |-> 0]

Event(type, ids) == [type |-> type, ids |-> ids]

\* The events written so far, followed by e.  (A run of equal events is
\* kept as one: the chunk events of one turn.)
Emit(log, e) == IF Len(log) > 0 /\ log[Len(log)] = e THEN log ELSE Append(log, e)

RECURSIVE EmitAll(_, _)
EmitAll(log, es) == IF es = <<>> THEN log ELSE EmitAll(Emit(log, Head(es)), Tail(es))

\* redisClient.addMessage: lPush, then lTrim 0 99; nothing when Redis is
\* not connected.
AddMessage(list, m) ==
    IF connected
    THEN LET l == <<m>> \o list
         IN SubSeq(l, 1, IF Len(l) < RetainedMessages THEN Len(l) ELSE RetainedMessages)
    ELSE list

ChatMessage(id, role) == [id |-> id, role |-> role]

\* The event that refuses a request before its session step.
Refusal(t) ==
    IF t = "socket" THEN Event("stream-error", {}) ELSE Event("status-400", {})

\* sendMessage / sendMessageStream / sendMessageSocket is called (after the
\* route's validation for the first two), up to the first await.
Receive(p, t, msg) ==
    /\ chat[p].pc = "idle"
    /\ IF Accepted(t, msg)
       THEN /\ chat' = [chat EXCEPT ![p] = [IdleChat EXCEPT !.pc = "session",
                                                            !.transport = t,
                                                            !.message = HandlerMessage(t, msg)]]
            /\ UNCHANGED sink
       ELSE /\ chat' = [chat EXCEPT ![p] = [IdleChat EXCEPT !.pc = "done",
                                                            !.transport = t]]
            /\ sink' = [sink EXCEPT ![p] = Emit(@, Refusal(t))]
    /\ UNCHANGED <<genVars, idxVars, rag, uuids, connected, store>>

\* The id the handler mints for the user message when u ids were drawn.
UserMessageId(u) == u + 1

\* A handler that reuses the user message's id for the assistant turn.
ReuseUserMessageId(u, userId) == userId

\* const assistantMessageId = uuidv4(), when u ids were drawn.
AssistantMessageId(u, userId) == {u + 1}

\* validateSession / createSession returned (createSession draws a uuid).
\* REST calls the pipeline; SSE and socket write the session event and save
\* the user message.
SessionReturns(p, created) ==
    /\ chat[p].pc = "session"
    /\ LET u == IF created THEN uuids + 1 ELSE uuids
       IN IF chat[p].transport = "rest"
          THEN /\ uuids' = u
               /\ chat' = [chat EXCEPT ![p].pc = "pipeline"]
               /\ ProcessQuery(p, "generate")
               /\ UNCHANGED sink
          ELSE /\ uuids' = UserMessageId(u)
               /\ chat' = [chat EXCEPT ![p].pc = "save-user",
                                       ![p].userMessageId = {UserMessageId(u)}]
               /\ sink' = [sink EXCEPT ![p] = Emit(@, Event("session", {}))]
               /\ UNCHANGED <<genVars, idxVars, rag>>
    /\ UNCHANGED <<connected, store>>

\* await redisClient.addMessage(validSessionId, userMessage) returned.
\* Socket: the user message is echoed, the assistant id is minted,
\* stream-start is emitted and processStreamQuery is called.  SSE:
\* processQuery is called.  REST (the pipeline has returned): the assistant
\* message is saved next.
UserSaved(p) ==
    /\ chat[p].pc = "save-user"
    /\ store' = AddMessage(store, ChatMessage(chat[p].userMessageId, "user"))
    /\ CASE chat[p].transport = "socket" ->
              LET id == AssistantMessageId(uuids, chat[p].userMessageId)
              IN /\ uuids' = uuids + 1
                 /\ chat' = [chat EXCEPT ![p].pc = "pipeline", ![p].assistantMessageId = id]
                 /\ sink' = [sink EXCEPT ![p] =
                               EmitAll(@, <<Event("stream-user-message", chat[p].userMessageId),
                                            Event("stream-start", id)>>)]
                 /\ ProcessQuery(p, "stream")
         [] chat[p].transport = "sse" ->
              /\ chat' = [chat EXCEPT ![p].pc = "pipeline"]
              /\ ProcessQuery(p, "generate")
              /\ UNCHANGED <<uuids, sink>>
         [] chat[p].transport = "rest" ->
              /\ chat' = [chat EXCEPT ![p].pc = "save-assistant"]
              /\ UNCHANGED <<uuids, sink, genVars, idxVars, rag>>
    /\ UNCHANGED connected

\* processQuery returns its response: messageId: uuidv4().  (The id is
\* kept in the handler's frame, where ragResponse.messageId is read.)
ProcessQueryReturns(p) ==
    /\ RagReturns(p)
    /\ IF rag[p].kind = "generate" /\ outcome[p].status = "ok"
       THEN /\ uuids' = uuids + 1
            /\ chat' = [chat EXCEPT ![p].assistantMessageId = {uuids + 1}]
       ELSE UNCHANGED <<uuids, chat>>
    /\ UNCHANGED <<sink, connected, store>>

\* A step of the generation call of request p; a chunk with a text is
\* emitted to the socket as stream-chunk with the messageId passed in.
ChatGenStep(p) ==
    /\ StartBody(p) \/ GenStep(p)
    /\ sink' = [sink EXCEPT ![p] =
                  IF Len(call'[p].fullResponse) > Len(call[p].fullResponse)
                  THEN Emit(@, Event("stream-chunk", chat[p].assistantMessageId))
                  ELSE @]
    /\ UNCHANGED <<idxVars, rag, chat, uuids, connected, store>>

\* A handler that goes on after the pipeline threw.
FailureFallsThrough(f) == [f EXCEPT !.pc = "save-assistant"]

\* catch (error): the error event is written and the handler returns.
FailureReturns(f) == [f EXCEPT !.pc = "done"]

\* The error event of a transport.
ErrorEvent(t) ==
    CASE t = "socket" -> Event("stream-error", {})
      [] t = "sse" -> Event("error", {})
      [] t = "rest" -> Event("status-500", {})

\* await ragService.processQuery / processStreamQuery returned or threw.
PipelineReturns(p) ==
    /\ chat[p].pc = "pipeline"
    /\ rag[p].pc \in {"done", "failed"}
    /\ IF rag[p].pc = "failed"
       THEN /\ chat' = [chat EXCEPT ![p] = FailureReturns(@)]
            /\ sink' = [sink EXCEPT ![p] = Emit(@, ErrorEvent(chat[p].transport))]
            /\ UNCHANGED uuids
       ELSE CASE chat[p].transport = "socket" ->
                   /\ chat' = [chat EXCEPT ![p].pc = "save-assistant"]
                   /\ sink' = [sink EXCEPT ![p] = Emit(@, Event("stream-sources", {}))]
                   /\ UNCHANGED uuids
              [] chat[p].transport = "sse" ->
                   \E n \in 1..MaxChunks :
                       /\ chat' = [chat EXCEPT ![p].pc = "sse-delay", ![p].chunksLeft = n - 1]
                       /\ sink' = [sink EXCEPT ![p] =
                                     EmitAll(@, <<Event("sources", {}), Event("chunk", {})>>)]
                       /\ UNCHANGED uuids
              [] chat[p].transport = "rest" ->
                   /\ uuids' = UserMessageId(uuids)
                   /\ chat' = [chat EXCEPT ![p].pc = "save-user",
                                           ![p].userMessageId = {UserMessageId(uuids)}]
                   /\ UNCHANGED sink
    /\ UNCHANGED <<genVars, idxVars, rag, connected, store>>

\* SSE: the 50 ms delay after a chunk elapsed; the next chunk is written,
\* or the completion event, after which the assistant message is saved.
SseDelayElapses(p) ==
    /\ chat[p].pc = "sse-delay"
    /\ IF chat[p].chunksLeft > 0
       THEN /\ chat' = [chat EXCEPT ![p].chunksLeft = @ - 1]
            /\ sink' = [sink EXCEPT ![p] = Emit(@, Event("chunk", {}))]
       ELSE /\ chat' = [chat EXCEPT ![p].pc = "save-assistant"]
            /\ sink' = [sink EXCEPT ![p] = Emit(@, Event("complete", chat[p].assistantMessageId))]
    /\ UNCHANGED <<genVars, idxVars, rag, uuids, connected, store>>

\* await redisClient.addMessage(validSessionId, assistantMessage) returned;
\* the socket handler emits stream-complete.
AssistantSaved(p) ==
    /\ chat[p].pc = "save-assistant"
    /\ store' = AddMessage(store, ChatMessage(chat[p].assistantMessageId, "assistant"))
    /\ chat' = [chat EXCEPT ![p].pc = "activity"]
    /\ sink' = [sink EXCEPT ![p] =
                  IF chat[p].transport = "socket"
                  THEN Emit(@, Event("stream-complete", chat[p].assistantMessageId))
                  ELSE @]
    /\ UNCHANGED <<genVars, idxVars, rag, uuids, connected>>

\* await sessionManager.updateSessionActivity returned; REST answers with
\* res.json({ ..., messageId: ragResponse.messageId }).
ActivityReturns(p) ==
    /\ chat[p].pc = "activity"
    /\ chat' = [chat EXCEPT ![p].pc = "done"]
    /\ sink' = [sink EXCEPT ![p] =
                  IF chat[p].transport = "rest"
                  THEN Emit(@, Event("response", chat[p].assistantMessageId))
                  ELSE @]
    /\ UNCHANGED <<genVars, idxVars, rag, uuids, connected, store>>

\* ------------------------------------------------ chat history (Redis) ---

NoFetch == [limit |-> 0, messages |-> <<>>]

RECURSIVE Reverse(_)
\* Array.prototype.reverse
Reverse(q) == IF q = <<>> THEN <<>> ELSE Reverse(Tail(q)) \o <<Head(q)>>

\* lRange(key, 0, count - 1): the first `count` elements from the head.
LRange(list, count) == SubSeq(list, 1, IF Len(list) < count THEN Len(list) ELSE count)

\* redisClient.getMessages(sessionId, count)
GetMessages(list, count) == IF connected THEN Reverse(LRange(list, count)) ELSE <<>>

\* A handler saves a message (addMessage).
MessageAdded(role) ==
    /\ uuids < MaxMessages
    /\ uuids' = uuids + 1
    /\ store' = AddMessage(store, ChatMessage({uuids + 1}, role))
    /\ UNCHANGED <<chat, sink, connected, fetched>>

\* getChatHistory: redisClient.getMessages(sessionId, limit).
HistoryFetched(limit) ==
    /\ fetched' = [limit |-> limit, messages |-> GetMessages(store, limit)]
    /\ UNCHANGED <<chat, sink, uuids, connected, store>>

\* The Redis client's 'error' / 'ready' events.
RedisFlip ==
    /\ connected' = ~connected
    /\ UNCHANGED <<chat, sink, uuids, store, fetched>>

\* --------------------------------------------------- result scoring ------

NoScoring == [distances |-> <<>>, scores |-> <<>>]

\* n as a number of halves.
Halves(n) == 2 * n

\* A distance of results.distances[0]: missing ({}), or {d} with d in halves.
Distances == {{}} \cup {{d} : d \in (0 - 1)..MaxDistance}

\* score: distances[i] !== undefined ? Math.max(0, 1 - distances[i]) : 0
\* (in halves).
Score(dist) ==
    IF dist = {} THEN 0
    ELSE LET d == CHOOSE x \in dist : TRUE
         IN IF Halves(1) - d > 0 THEN Halves(1) - d ELSE 0

\* getFallbackResponse: score: 0.5 (one half).
FallbackScore == 1

ResultLists == UNION {[1..n -> Distances] : n \in 0..MaxResults}

\* collection.query answered with the distances ds: the results get their
\* scores.
QueryScored(ds) ==
    /\ scoring' = [distances |-> ds, scores |-> [i \in 1..Len(ds) |-> Score(ds[i])]]
    /\ UNCHANGED fetched

\* The search returned the fallback response.
FallbackScored ==
    /\ scoring' = [distances |-> <<>>, scores |-> <<FallbackScore>>]
    /\ UNCHANGED fetched

\* ------------------------------------------- addMessage, command by command

IdleAdding == [pc |-> "idle", message |-> ChatMessage({}, "user")]

\* lTrim(key, 0, 99)
LTrim(list) == LRange(list, RetainedMessages)

\* addMessage(sessionId, message) is called: nothing without a connection,
\* else lPush is sent.
AddMessageCalled(a) ==
    /\ adding[a].pc \in {"idle", "returned"}
    /\ uuids < RetainedMessages + MaxMessages
    /\ uuids' = uuids + 1
    /\ adding' = [adding EXCEPT ![a] =
                    IF connected
                    THEN [pc |-> "lPush", message |-> ChatMessage({uuids + 1}, "user")]
                    ELSE [IdleAdding EXCEPT !.pc = "returned"]]
    /\ UNCHANGED <<chat, sink, connected, store, fetched, appended>>

\* lPush answered, or threw (the catch block: the call returns).
LPushReturns(a, ok) ==
    /\ adding[a].pc = "lPush"
    /\ IF ok
       THEN /\ store' = <<adding[a].message>> \o store
            /\ appended' = <<adding[a].message>> \o appended
            /\ adding' = [adding EXCEPT ![a].pc = "lTrim"]
       ELSE /\ adding' = [adding EXCEPT ![a] = [IdleAdding EXCEPT !.pc = "returned"]]
            /\ UNCHANGED <<store, appended>>
    /\ UNCHANGED <<chat, sink, uuids, connected, fetched>>

\* lTrim answered, or threw.
LTrimReturns(a, ok) ==
    /\ adding[a].pc = "lTrim"
    /\ IF ok
       THEN /\ store' = LTrim(store)
            /\ adding' = [adding EXCEPT ![a].pc = "expire"]
       ELSE /\ adding' = [adding EXCEPT ![a] = [IdleAdding EXCEPT !.pc = "returned"]]
            /\ UNCHANGED store
    /\ UNCHANGED <<chat, sink, uuids, connected, fetched, appended>>

\* expire answered or threw: addMessage returns.
ExpireReturns(a) ==
    /\ adding[a].pc = "expire"
    /\ adding' = [adding EXCEPT ![a] = [IdleAdding EXCEPT !.pc = "returned"]]
    /\ UNCHANGED <<chat, sink, uuids, connected, store, fetched, appended>>

\* Every Redis command of the calls is answered.
AddMessageStep(a) ==
    \/ AddMessageCalled(a)
    \/ LPushReturns(a, TRUE)
    \/ LTrimReturns(a, TRUE)
    \/ ExpireReturns(a)

\* A Redis command of a call throws.
AddMessageFault(a) ==
    \/ LPushReturns(a, FALSE)
    \/ LTrimReturns(a, FALSE)

\* ------------------------------------------------------ EmbeddingService

\* str.charCodeAt(i) of the characters the texts are made of.
CharCodes == {97, 98}

Texts == UNION {[1..n -> CharCodes] : n \in 0..MaxTextLen}

\* new Array(768)
LocalDimension == 768

\* config.embeddingDimension when EMBEDDING_DIMENSION is not set.
DefaultEmbeddingDimension == 768

\* parseInt(process.env.EMBEDDING_DIMENSION || '768', 10)
ConfiguredDimensions == {DefaultEmbeddingDimension, DefaultEmbeddingDimension \div 2}

\* One round of simpleHash's loop: hash = ((hash << 5) - hash) + char, then
\* hash & hash. The texts here are short enough for the sum to stay within
\* 32 bits, so that the conversion leaves it as it is.
HashRound(hash, char) == ((hash * 32) - hash) + char

RECURSIVE HashFrom(_, _, _)
HashFrom(hash, str, i) ==
    IF i > Len(str) THEN hash ELSE HashFrom(HashRound(hash, str[i]), str, i + 1)

\* let hash = 0; for (let i = 0; i < str.length; i++) ...
simpleHash(str) == HashFrom(0, str, 1)

\* The vector of generateLocalEmbedding: component i is Math.sin(hash + i) * 0.1,
\* written as the argument hash + i of the sine.
generateLocalEmbedding(text) ==
    LET hash == simpleHash(text)
    IN [k \in 1..LocalDimension |-> hash + (k - 1)]

\* The vectors of a response of the Jina API.
RemoteVectors == {<<0>>, <<1>>}

\* The configuration the other specifications run under, nothing embedded.
NoEmbeddings ==
    [dimension |-> DefaultEmbeddingDimension, jinaApiKey |-> FALSE, calls |-> <<>>]

\* What a call returns for one text: the vector of the response when a key is
\* configured and the request is answered, the local embedding otherwise.
Embedded(text, answered, remote) ==
    IF embeddings.jinaApiKey /\ answered
    THEN [text |-> text, by |-> "jina", vector |-> remote]
    ELSE [text |-> text, by |-> "local", vector |-> generateLocalEmbedding(text)]

\* generateEmbedding(text)
GenerateEmbedding(text, answered, remote) ==
    /\ Len(embeddings.calls) < MaxEmbedCalls
    /\ embeddings' = [embeddings EXCEPT
                        !.calls = Append(@, Embedded(text, answered, remote))]

\* generateBatchEmbeddings(texts): one request for all the texts, or one
\* local embedding per text.
GenerateBatchEmbeddings(texts, answered, remote) ==
    /\ Len(embeddings.calls) + Len(texts) <= MaxEmbedCalls
    /\ embeddings' = [embeddings EXCEPT
                        !.calls = @ \o [k \in 1..Len(texts) |->
                                          Embedded(texts[k], answered, remote)]]

Batches == UNION {[1..n -> Texts] : n \in 1..MaxEmbedCalls}

\* ------------------------------------------------- NewsIngestionService

\* config.news.maxArticles when MAX_ARTICLES_TO_INGEST is not set.
maxArticles == 50

\* const batchSize = 5
batchSize == 5

\* The links of the feed items; the document of an article is named by the
\* article's link.
Links == Docs

\* array.slice(0, n) of the articles, in feed order.
FirstN(S, n) == {x \in S : Cardinality({y \in S : y < x}) < n}

\* A service that was just constructed. clearsCache tells the two variants of
\* clearAndReingest apart; cleared, before, feed, failed and completed
\* describe the current or last run.
IdleIngest ==
    [pc |-> "idle", clearsCache |-> FALSE, runs |-> 0, cleared |-> FALSE,
     before |-> {}, feed |-> {}, articles |-> {}, batch |-> {}, todo |-> {},
     failed |-> FALSE, completed |-> FALSE]

\* A call of the vector store service threw, or logged an error.
AdminFailed(adm) == adm.result = "threw" \/ adm.deleteFailed

\* A run begins.
RunBegins(pc, cleared) ==
    [ingest EXCEPT !.pc = pc, !.runs = @ + 1, !.cleared = cleared,
                   !.before = backend.docs, !.feed = {}, !.articles = {},
                   !.batch = {}, !.todo = {}, !.failed = FALSE,
                   !.completed = FALSE]

\* clearAndReingest once its clearCollection has got as far as adm: still
\* waiting, thrown out of the run, or returned. The variant of app.ts then
\* clears processedArticles, the one of ingestNews.ts does not.
AfterClear(run, adm) ==
    /\ ingest' = LET r == [run EXCEPT !.failed = @ \/ AdminFailed(adm)]
                 IN IF adm.pc # "idle" THEN r
                    ELSE IF adm.result = "threw" THEN [r EXCEPT !.pc = "idle"]
                    ELSE [r EXCEPT !.pc = "fetch"]
    /\ processedArticles' =
         IF adm.pc = "idle" /\ adm.result # "threw" /\ run.clearsCache
         THEN {} ELSE processedArticles

\* clearAndReingest() is called: clearCollection begins.
ClearAndReingest ==
    /\ ingest.pc = "idle"
    /\ ingest.runs < MaxRuns
    /\ ClearCollection
    /\ AfterClear(RunBegins("clear", TRUE), admin')

\* A step of its clearCollection.
ClearStep ==
    /\ ingest.pc = "clear"
    /\ \/ ClearInitializeReturns
       \/ ClearGetReturns
       \/ ClearDeleteIdsReturns
       \/ ClearDeleteCollectionReturns
       \/ ClearRecreateReturns
    /\ AfterClear(ingest, admin')

\* ingestNewsArticles() is called on its own.
IngestNewsArticles ==
    /\ ingest.pc = "idle"
    /\ ingest.runs < MaxRuns
    /\ admin.pc = "idle"
    /\ ingest' = RunBegins("fetch", FALSE)
    /\ UNCHANGED <<idxVars, processedArticles>>

\* The feeds are read, serving items: those not processed before become
\* articles and are marked as processed; at most maxArticles are kept.
FetchArticles(items) ==
    /\ ingest.pc = "fetch"
    /\ LET allArticles == items \ processedArticles
           articlesToProcess == FirstN(allArticles, maxArticles)
       IN /\ processedArticles' = processedArticles \cup allArticles
          /\ ingest' = [ingest EXCEPT
                          !.feed = items,
                          !.articles = articlesToProcess,
                          !.pc = IF articlesToProcess = {} THEN "count" ELSE "embed"]
    /\ UNCHANGED idxVars

\* processBatch once addBatchDocuments has got as far as adm: waiting,
\* thrown (the articles of the batch are processed one by one), or
\* returned.
AfterBatch(run, adm) ==
    IF adm.pc # "idle" THEN run
    ELSE IF adm.result = "threw"
         THEN [run EXCEPT !.pc = "individual", !.todo = run.batch, !.failed = TRUE]
         ELSE [run EXCEPT !.pc = "delay"]

\* The embeddings of the next batch arrived: addBatchDocuments is called.
ProcessBatch ==
    /\ ingest.pc = "embed"
    /\ LET batch == FirstN(ingest.articles, batchSize)
       IN /\ AddBatchDocuments(batch)
          /\ ingest' = AfterBatch([ingest EXCEPT !.pc = "batch", !.batch = batch], admin')
    /\ UNCHANGED processedArticles

\* addBatchDocuments returns or throws.
BatchReturns ==
    /\ ingest.pc = "batch"
    /\ AddBatchReturns
    /\ ingest' = AfterBatch(ingest, admin')
    /\ UNCHANGED processedArticles

\* processIndividualArticle once addDocument has got as far as adm; what it
\* throws is only logged.
AfterIndividual(run, d, adm) ==
    IF adm.pc # "idle" THEN [run EXCEPT !.pc = "adding"]
    ELSE LET rest == run.todo \ {d}
         IN [run EXCEPT !.todo = rest,
                        !.failed = @ \/ AdminFailed(adm),
                        !.pc = IF rest = {} THEN "delay" ELSE "individual"]

\* The embedding of the next article of the failed batch arrived:
\* addDocument is called.
ProcessIndividualArticle ==
    /\ ingest.pc = "individual"
    /\ LET d == CHOOSE x \in ingest.todo : \A y \in ingest.todo : x <= y
       IN /\ AddDocument(d)
          /\ ingest' = AfterIndividual(ingest, d, admin')
    /\ UNCHANGED processedArticles

\* addDocument returns or throws.
IndividualReturns ==
    /\ ingest.pc = "adding"
    /\ AddReturns
    /\ ingest' = AfterIndividual(ingest, admin.doc, admin')
    /\ UNCHANGED processedArticles

\* The delay after a batch elapsed: the next batch, or the count.
DelayElapses ==
    /\ ingest.pc = "delay"
    /\ LET rest == ingest.articles \ ingest.batch
       IN ingest' = [ingest EXCEPT !.articles = rest, !.batch = {},
                                   !.pc = IF rest = {} THEN "count" ELSE "embed"]
    /\ UNCHANGED <<idxVars, processedArticles>>

\* getDocumentCount returned (its result is logged): the run is complete.
CountReturns ==
    /\ ingest.pc = "count"
    /\ ingest' = [ingest EXCEPT !.pc = "idle", !.completed = TRUE]
    /\ UNCHANGED <<idxVars, processedArticles>>

IngestStep ==
    \/ ClearAndReingest
    \/ ClearStep
    \/ IngestNewsArticles
    \/ \E items \in SUBSET Links : FetchArticles(items)
    \/ ProcessBatch
    \/ BatchReturns
    \/ ProcessIndividualArticle
    \/ IndividualReturns
    \/ DelayElapses
    \/ CountReturns

\* ------------------------------------------- the socket of a stream ------

\* The socket handed to generateStreamResponse: "open", "closed" (emit
\* returns and the packet is dropped) or "broken" (emit throws); chunks are
\* the contents of the stream-chunk events emit has returned for; thrown
\* counts the emits that threw.
IdleOutlet == [state |-> "open", chunks |-> <<>>, thrown |-> 0]

\* The error thrown by socket.emit during attempt a on model m; its message
\* names none of the retryable conditions.
SinkError(m, a) == [kind |-> "sink", model |-> m, attempt |-> a]

\* The socket disconnects or breaks.
SinkChanges(c, st) ==
    /\ outlet[c].state = "open"
    /\ outlet' = [outlet EXCEPT ![c].state = st]
    /\ UNCHANGED genVars

\* One chunk with a text arrives: fullResponse += chunkText, then
\* socket.emit('stream-chunk'). An emit that throws is caught by the catch
\* block around the loop and rethrown to retryWithBackoff.
EmitChunk(c) ==
    /\ call[c].pc = "streaming"
    /\ Len(call[c].fullResponse) < MaxChunks
    /\ IF outlet[c].state = "broken"
       THEN /\ HandleFailure(c, SinkError(call[c].actualModelIndex, call[c].attempt), TRUE)
            /\ outlet' = [outlet EXCEPT ![c].thrown = @ + 1]
       ELSE /\ StreamChunk(c)
            /\ outlet' = [outlet EXCEPT ![c].chunks = Append(@, call[c].actualModelIndex)]

\* generateStreamResponse(query, context, socket, messageId) and the steps
\* of its call.
StreamStep(c) ==
    \/ Submit(c, "stream") /\ UNCHANGED outlet
    \/ StartBody(c) /\ UNCHANGED outlet
    \/ (\E k \in ErrorKinds : RequestFails(c, k)) /\ UNCHANGED outlet
    \/ BackoffElapses(c) /\ UNCHANGED outlet
    \/ StreamOpens(c) /\ UNCHANGED outlet
    \/ EmitChunk(c)
    \/ StreamEnds(c) /\ UNCHANGED outlet
    \/ (\E k \in ErrorKinds : StreamErrors(c, k)) /\ UNCHANGED outlet


\* ------------------------------------------------- testConnection ------

IdleProbe == [pc |-> "idle", model |-> 0, result |-> FALSE]

\* testConnection() is called: generateContent is sent to the preferred
\* model. The call is not chained to the request queue.
TestConnection ==
    /\ probe.pc \in {"idle", "done"}
    /\ probe' = [pc |-> "primary", model |-> currentModelIndex, result |-> FALSE]
    /\ UNCHANGED genVars

\* The test of the preferred model answered, or threw: then the models are
\* tested from the first one on.
ProbePrimaryReturns(ok) ==
    /\ probe.pc = "primary"
    /\ probe' = IF ok THEN [IdleProbe EXCEPT !.pc = "done", !.result = TRUE]
                ELSE [pc |-> "fallback", model |-> 0, result |-> FALSE]
    /\ UNCHANGED genVars

\* The test of model i answered (this.currentModelIndex = i; return true),
\* or threw: the next model, or return false.
ProbeFallbackReturns(ok) ==
    /\ probe.pc = "fallback"
    /\ IF ok
       THEN /\ currentModelIndex' = probe.model
            /\ probe' = [IdleProbe EXCEPT !.pc = "done", !.result = TRUE]
       ELSE /\ probe' = IF probe.model + 1 < NumModels
                        THEN [probe EXCEPT !.model = @ + 1]
                        ELSE [IdleProbe EXCEPT !.pc = "done"]
            /\ UNCHANGED currentModelIndex
    /\ UNCHANGED <<requestQueue, call, outcome, obs>>

ProbeStep ==
    \/ TestConnection
    \/ \E ok \in BOOLEAN : ProbePrimaryReturns(ok)
    \/ \E ok \in BOOLEAN : ProbeFallbackReturns(ok)

\* ------------------------------- ChatController: a failing activity update

\* await sessionManager.updateSessionActivity threw (a Redis command of the
\* client without try/catch failed): the handler's catch block writes the
\* error event and the handler returns.
ActivityThrows(p) ==
    /\ chat[p].pc = "activity"
    /\ chat' = [chat EXCEPT ![p].pc = "done"]
    /\ sink' = [sink EXCEPT ![p] = Emit(@, ErrorEvent(chat[p].transport))]
    /\ UNCHANGED <<genVars, idxVars, rag, uuids, connected, store>>

\* ------------------------------------------------------ SessionManager ---

\* One session id: its record in Redis (present or not), whether a
\* deleteSession for it has completed, and the calls of SessionManager on
\* it. A frame holds the operation, where it is, what its get returned and
\* what the call returned.
IdleSession == [pc |-> "idle", op |-> "none", found |-> FALSE, result |-> FALSE]

NoSessions == [record |-> FALSE, deleted |-> FALSE, calls |-> [a \in Calls |-> IdleSession]]

SessionOps == {"getSession", "updateSessionActivity", "deleteSession", "validateSession"}

\* A method of SessionManager is called for the session: its first Redis
\* command is sent.
SessionCalled(a, op) ==
    /\ sessions.calls[a].pc \in {"idle", "done"}
    /\ sessions' = [sessions EXCEPT !.calls[a] =
                      [IdleSession EXCEPT !.op = op,
                                          !.pc = IF op = "deleteSession" THEN "del" ELSE "get"]]

\* redisClient.getSession answered: validateSession returns session !==
\* null; getSession and updateSessionActivity write the record back when
\* they found one.
SessionGetReturns(a) ==
    /\ sessions.calls[a].pc = "get"
    /\ sessions' = [sessions EXCEPT !.calls[a] =
                      IF @.op = "validateSession" \/ ~sessions.record
                      THEN [@ EXCEPT !.pc = "done", !.found = sessions.record,
                                     !.result = sessions.record]
                      ELSE [@ EXCEPT !.pc = "set", !.found = TRUE]]

\* redisClient.setSession answered: setEx wrote the record.
SessionSetReturns(a) ==
    /\ sessions.calls[a].pc = "set"
    /\ sessions' = [sessions EXCEPT !.record = TRUE,
                                    !.calls[a] = [@ EXCEPT !.pc = "done", !.result = TRUE]]

\* redisClient.deleteSession answered: del removed the record;
\* clearMessages is sent.
SessionDelReturns(a) ==
    /\ sessions.calls[a].pc = "del"
    /\ sessions' = [sessions EXCEPT !.record = FALSE, !.calls[a].pc = "clear"]

\* redisClient.clearMessages answered: deleteSession returns.
SessionClearReturns(a) ==
    /\ sessions.calls[a].pc = "clear"
    /\ sessions' = [sessions EXCEPT !.deleted = TRUE, !.calls[a].pc = "done"]

SessionStep(a) ==
    \/ \E op \in SessionOps : SessionCalled(a, op)
    \/ SessionGetReturns(a)
    \/ SessionSetReturns(a)
    \/ SessionDelReturns(a)
    \/ SessionClearReturns(a)

\* ------------------------------------------------------------ CronService

\* The processes of the server started one after the other.
MaxStarts == 2

\* A JavaScript number is the set of its value; undefined and NaN, which
\* equal no number, are the empty set.
Num(n) == {n}

\* x + y; x++ is Plus(x, Num(1)).
Plus(x, y) == {a + b : a \in x, b \in y}

\* JSON.stringify(value): a string that holds the JSON text of the value.
Stringify(value) == [json |-> value]

\* JSON.parse(data)
Parse(data) == data.json

\* value.name: undefined when the value has no such property (a string has
\* none of the properties of the statistics).
Property(value, name) == IF name \in DOMAIN value THEN value[name] ELSE {}

\* private stats of a CronService that was just constructed
NoRuns ==
    [totalRuns |-> Num(0), successfulRuns |-> Num(0), failedRuns |-> Num(0),
     isRunning |-> FALSE]

\* The process of the server before startServer: a CronService that was
\* just constructed, no run called. cached is the value of the key
\* cache:news:cron_stats in Redis, which outlives the process.
IdleCron ==
    [pc |-> "starting", starts |-> 1, isInitialized |-> FALSE,
     cronJob |-> FALSE, stats |-> NoRuns,
     runs |-> [a \in Calls |-> "idle"], cached |-> <<>>]

\* redisClient.setCache(key, value): the value is stored as its JSON text.
SetCache(value) == <<Stringify(value)>>

\* redisClient.getCache(key): null (here, the empty sequence) when there is
\* no value, or the parsed text.
GetCache(data) == IF data = <<>> THEN <<>> ELSE <<Parse(data[1])>>

\* saveStatsToRedis: the statistics are made a string, which is cached.
SaveStats(stats) == SetCache(Stringify(stats))

\* loadStatsFromRedis with the value getCache returned: the saved value is
\* spread into the statistics, isRunning is reset.
LoadStats(savedStats) ==
    [totalRuns |-> Property(savedStats, "totalRuns"),
     successfulRuns |-> Property(savedStats, "successfulRuns"),
     failedRuns |-> Property(savedStats, "failedRuns"),
     isRunning |-> FALSE]

\* A guard that lets every call through.
NeverRefused(stats) == FALSE

\* if (this.stats.isRunning) return
Refused(stats) == stats.isRunning

\* The run begins: isRunning = true, totalRuns++
RunStarts(stats) ==
    [stats EXCEPT !.isRunning = TRUE, !.totalRuns = Plus(@, Num(1))]

\* clearAndReingest returned: successfulRuns++, isRunning = false
RunSucceeds(stats) ==
    [stats EXCEPT !.successfulRuns = Plus(@, Num(1)), !.isRunning = FALSE]

\* clearAndReingest threw: failedRuns++, isRunning = false
RunFails(stats) ==
    [stats EXCEPT !.failedRuns = Plus(@, Num(1)), !.isRunning = FALSE]

\* startServer: cronService.initialize() loads the statistics unless the
\* vector store failed to initialize (initialized is FALSE) or Redis gave
\* nothing (found is FALSE); startNewsIngestionCron schedules the job when
\* initialize returned and the cron is enabled; the server then listens.
StartServer(initialized, found, enableCron) ==
    /\ cron.pc = "starting"
    /\ LET savedStats == IF found THEN GetCache(cron.cached) ELSE <<>>
       IN cron' = [cron EXCEPT
                     !.pc = "serving",
                     !.isInitialized = initialized,
                     !.cronJob = initialized /\ enableCron,
                     !.stats = IF initialized /\ savedStats # <<>>
                               THEN LoadStats(savedStats[1]) ELSE @]

\* runNewsIngestion() is called, by the scheduled job or by
\* manualNewsUpdate: refused while a run is in progress, or the run begins.
RunNewsIngestion(a, manual) ==
    /\ cron.pc = "serving"
    /\ cron.runs[a] = "idle"
    /\ manual \/ cron.cronJob
    /\ cron' = IF Refused(cron.stats)
               THEN [cron EXCEPT !.runs[a] = "refused"]
               ELSE [cron EXCEPT !.runs[a] = "ingesting",
                                 !.stats = RunStarts(@)]

\* The run of call a ends with the statistics stats, which saveStatsToRedis
\* saves unless Redis is away (stored is FALSE).
RunEnds(a, stats, stored) ==
    [cron EXCEPT !.runs[a] = "done",
                 !.stats = stats,
                 !.cached = IF stored THEN SaveStats(stats) ELSE @]

\* clearAndReingest of the run of call a returns.
ClearAndReingestReturns(a, stored) ==
    /\ cron.runs[a] = "ingesting"
    /\ cron' = RunEnds(a, RunSucceeds(cron.stats), stored)

\* clearAndReingest of the run of call a throws.
ClearAndReingestThrows(a, stored) ==
    /\ cron.runs[a] = "ingesting"
    /\ cron' = RunEnds(a, RunFails(cron.stats), stored)

\* The process ends and the next one begins: a new CronService, the same
\* Redis.
Restart ==
    /\ cron.starts < MaxStarts
    /\ cron' = [IdleCron EXCEPT !.starts = cron.starts + 1,
                                !.cached = cron.cached]

CronStep ==
    \/ \E initialized, found, enableCron \in BOOLEAN :
          StartServer(initialized, found, enableCron)
    \/ \E a \in Calls, manual \in BOOLEAN : RunNewsIngestion(a, manual)
    \/ \E a \in Calls, stored \in BOOLEAN : ClearAndReingestReturns(a, stored)
    \/ \E a \in Calls, stored \in BOOLEAN : ClearAndReingestThrows(a, stored)
    \/ Restart

\* The run of call a once the ingestion it awaits has got as far as run: the
\* statistics follow the way clearAndReingest ended.
Ingested(c, a, run, stored) ==
    IF run.pc # "idle" THEN c
    ELSE LET stats == IF run.completed THEN RunSucceeds(c.stats)
                      ELSE RunFails(c.stats)
         IN [c EXCEPT !.runs[a] = "done",
                      !.stats = stats,
                      !.cached = IF stored THEN SaveStats(stats) ELSE @]

\* runNewsIngestion() is called and not refused: its clearAndReingest
\* begins.
AwaitedBegins(a, manual, stored) ==
    /\ cron.pc = "serving"
    /\ cron.runs[a] = "idle"
    /\ manual \/ cron.cronJob
    /\ ~Refused(cron.stats)
    /\ ClearAndReingest
    /\ cron' = Ingested([cron EXCEPT !.runs[a] = "ingesting",
                                     !.stats = RunStarts(@)],
                        a, ingest', stored)

\* A step of the ingestion the run of call a awaits.
AwaitedStep(a, stored) ==
    /\ cron.runs[a] = "ingesting"
    /\ \/ ClearStep
       \/ \E items \in SUBSET Links : FetchArticles(items)
       \/ ProcessBatch
       \/ BatchReturns
       \/ ProcessIndividualArticle
       \/ IndividualReturns
       \/ DelayElapses
       \/ CountReturns
    /\ cron' = Ingested(cron, a, ingest', stored)

\* ------------------------------------------- CronService.getNextRunTime

\* The values of config.news.cronInterval, in minutes: below 60 (divisors
\* of 60 and not), 60, multiples of 60 (hours that divide 24 and not), and
\* others.
Intervals == {1, 7, 15, 30, 45, 60, 120, 300, 90}

Hours == 0..23

Minutes == 0..59

\* Math.ceil(a / b) of two integers, b positive
Ceil(a, b) == (a + b - 1) \div b

\* minutesToCronExpression(minutes): the minute and the hour field of the
\* expression; a step of 0 stands for the field "0" (minute) or "*" (hour),
\* a step n for "*/n".
minutesToCronExpression(minutes) ==
    IF minutes < 60 THEN [minute |-> minutes, hour |-> 0]
    ELSE IF minutes = 60 THEN [minute |-> 0, hour |-> 0]
    ELSE IF minutes % 60 = 0 THEN [minute |-> 0, hour |-> minutes \div 60]
    ELSE [minute |-> minutes, hour |-> 0]

\* The expression fires in the minute t (minutes since midnight of the
\* current day): "*/n" takes every n-th value of the field from its least
\* one, 0.
Fires(expression, t) ==
    LET m == t % 60
        h == (t \div 60) % 24
    IN /\ IF expression.minute = 0 THEN m = 0 ELSE m % expression.minute = 0
       /\ expression.hour = 0 \/ h % expression.hour = 0

\* The first minute from t on in which the expression fires.
RECURSIVE FiresFrom(_, _)
FiresFrom(expression, t) ==
    IF Fires(expression, t) THEN t ELSE FiresFrom(expression, t + 1)

\* The next hour after nextHour - 1 that the hours of the interval divide:
\* do { nextHour++ } while (nextHour % hours !== 0), nextHour incremented.
RECURSIVE NextHour(_, _)
NextHour(nextHour, hours) ==
    IF nextHour % hours = 0 THEN nextHour ELSE NextHour(nextHour + 1, hours)

\* getNextRunTime() with a job scheduled, at the time hour:minute, any
\* second: the minute of the Date it returns, counted from midnight of the
\* current day. The three first branches return second 0 of that minute,
\* the last one the second of now.
getNextRunTime(intervalMinutes, hour, minute) ==
    IF intervalMinutes < 60
    THEN LET nextMinutes == Ceil(minute, intervalMinutes) * intervalMinutes
         IN IF nextMinutes >= 60
            THEN (hour + 1) * 60 + (nextMinutes - 60)
            ELSE hour * 60 + nextMinutes
    ELSE IF intervalMinutes = 60
    THEN (hour + 1) * 60
    ELSE IF intervalMinutes % 60 = 0
    THEN LET hours == intervalMinutes \div 60
             nextHour == NextHour(hour + 1, hours)
         IN IF nextHour >= 24
            THEN 24 * 60 + (nextHour - 24) * 60
            ELSE nextHour * 60
    ELSE hour * 60 + minute + intervalMinutes

\* A service with no job scheduled, the clock at midnight; nextRun is what
\* getNextRunTime returned last, null being the empty sequence, with the
\* time it was called at.
IdleTimer ==
    [cronInterval |-> 60, hour |-> 0, minute |-> 0, cronJob |-> FALSE,
     nextRun |-> <<>>, at |-> 0]

\* startNewsIngestionCron() with the cron enabled
StartNewsIngestionCron ==
    /\ ~timer.cronJob
    /\ timer' = [timer EXCEPT !.cronJob = TRUE]

\* stopNewsIngestionCron()
StopNewsIngestionCron ==
    /\ timer.cronJob
    /\ timer' = [timer EXCEPT !.cronJob = FALSE]

\* getNextRunTime()
GetNextRunTime ==
    timer' = [timer EXCEPT
                !.at = timer.hour * 60 + timer.minute,
                !.nextRun = IF ~timer.cronJob THEN <<>>
                            ELSE <<getNextRunTime(timer.cronInterval,
                                                  timer.hour, timer.minute)>>]

\* The services the other specifications leave alone.
InitLate ==
    /\ probe = IdleProbe
    /\ sessions = NoSessions
    /\ cron = IdleCron
    /\ timer = IdleTimer

\* ------------------------------------------------------------ Init -------

\* The state of the services the other specifications leave alone.
InitMore ==
    /\ adding = [c \in Calls |-> IdleAdding]
    /\ appended = <<>>
    /\ embeddings = NoEmbeddings
    /\ ingest = IdleIngest
    /\ processedArticles = {}
    /\ outlet = [c \in Calls |-> IdleOutlet]
    /\ InitLate

Init ==
    /\ currentModelIndex = 0
    /\ requestQueue = <<>>
    /\ call = [c \in Calls |-> IdleFrame]
    /\ outcome = [c \in Calls |-> Pending]
    /\ obs = [c \in Calls |-> NoObs]
    /\ useCloud \in BOOLEAN
    /\ collection = "null"
    /\ newsCollection = "null"
    /\ backend = [up |-> TRUE, exists |-> FALSE, docs |-> {}]
    /\ search = [c \in Calls |-> IdleSearch]
    /\ admin = IdleAdmin
    /\ rag = [c \in Calls |-> IdleRag]
    /\ chat = [c \in Calls |-> IdleChat]
    /\ sink = [c \in Calls |-> <<>>]
    /\ uuids = 0
    /\ connected = TRUE
    /\ store = <<>>
    /\ fetched = NoFetch
    /\ scoring = NoScoring
    /\ InitMore

\* The generation adapter under direct calls.
NextGen ==
    /\ \E c \in Calls :
          \/ \E k \in {"generate", "stream"} : Submit(c, k)
          \/ StartBody(c)
          \/ GenStep(c)
    /\ UNCHANGED <<idxVars, rag, chatVars, resultVars, moreVars>>

\* The adapter does not read the index configuration: one value of it.
InitGen == Init /\ ~useCloud

SpecGen == InitGen /\ [][NextGen]_vars

\* The event loop runs the continuation of every promise that settles: a
\* chained body whose turn it is starts, and an attempt or a backoff wait
\* that is over is followed by the body's next step.
LiveStep(c) ==
    /\ StartBody(c) \/ GenStep(c)
    /\ UNCHANGED <<idxVars, rag, chatVars, resultVars, moreVars>>

SpecGenLive == SpecGen /\ \A c \in Calls : WF_vars(LiveStep(c))

\* The vector index adapter under direct searches and the ingestion.
NextIndex ==
    /\ \/ \E s \in Queries : SearchSimilar(s) \/ SearchStep(s)
       \/ IngestionStep
       \/ BackendFlip
    /\ UNCHANGED <<genVars, rag, chatVars, resultVars, moreVars>>

SpecIndex == Init /\ [][NextIndex]_vars

\* The vector index adapter under the ingestion's operations alone.
NextAdmin ==
    /\ \/ IngestionStep
       \/ MaintenanceStep
       \/ BackendFlip
    /\ UNCHANGED <<genVars, rag, chatVars, resultVars, moreVars>>

SpecAdmin == Init /\ [][NextAdmin]_vars

\* The pipeline: queries, the ingestion and the server beside them.
Next ==
    /\ \/ \E p \in Queries :
             \/ \E k \in {"generate", "stream"} : ProcessQuery(p, k)
             \/ SearchStep(p) /\ UNCHANGED <<genVars, rag>>
             \/ RagGenerate(p)
             \/ (StartBody(p) \/ GenStep(p)) /\ UNCHANGED <<idxVars, rag>>
             \/ RagReturns(p)
       \/ (IngestionStep \/ BackendFlip) /\ UNCHANGED <<genVars, rag>>
    /\ UNCHANGED <<chatVars, resultVars, moreVars>>

Spec == Init /\ [][Next]_vars

\* The messages of an earlier turn, as the handlers leave them in the list.
EarlierTurn == <<ChatMessage({2}, "assistant"), ChatMessage({1}, "user")>>

\* The handlers start in a process whose adapters hold no handle yet, in
\* front of a server that is reachable or not and holds no collection or a
\* populated one, with or without an earlier turn in the chat history.
InitChat ==
    /\ currentModelIndex = 0
    /\ requestQueue = <<>>
    /\ call = [c \in Calls |-> IdleFrame]
    /\ outcome = [c \in Calls |-> Pending]
    /\ obs = [c \in Calls |-> NoObs]
    /\ useCloud \in BOOLEAN
    /\ collection = "null"
    /\ newsCollection = "null"
    /\ backend \in {[up |-> u, exists |-> e, docs |-> IF e THEN Docs ELSE {}] :
                       u \in BOOLEAN, e \in BOOLEAN}
    /\ search = [c \in Calls |-> IdleSearch]
    /\ admin = IdleAdmin
    /\ rag = [c \in Calls |-> IdleRag]
    /\ chat = [c \in Calls |-> IdleChat]
    /\ sink = [c \in Calls |-> <<>>]
    /\ connected \in BOOLEAN
    /\ store \in {<<>>, EarlierTurn}
    /\ uuids = Len(store)
    /\ fetched = NoFetch
    /\ scoring = NoScoring
    /\ InitMore

\* The transport handlers over the pipeline.
NextChat ==
    /\ \E p \in Queries :
          \/ \E t \in Transports, msg \in Messages : Receive(p, t, msg)
          \/ \E created \in BOOLEAN : SessionReturns(p, created)
          \/ UserSaved(p)
          \/ SearchStep(p) /\ UNCHANGED <<genVars, rag, chatVars>>
          \/ RagGenerate(p) /\ UNCHANGED chatVars
          \/ ChatGenStep(p)
          \/ ProcessQueryReturns(p)
          \/ PipelineReturns(p)
          \/ SseDelayElapses(p)
          \/ AssistantSaved(p)
          \/ ActivityReturns(p)
    /\ UNCHANGED <<resultVars, moreVars>>

SpecChat == InitChat /\ [][NextChat]_vars

\* The chat history list under saves, reads and connection changes.
NextHistory ==
    /\ \/ \E role \in {"user", "assistant"} : MessageAdded(role)
       \/ \E limit \in 1..MaxMessages : HistoryFetched(limit)
       \/ RedisFlip
    /\ UNCHANGED <<genVars, idxVars, rag, scoring, moreVars>>

SpecHistory == Init /\ [][NextHistory]_vars

\* The scores searchSimilar gives, for the distance lists a query answer
\* can hold.
NextScore ==
    /\ \/ \E ds \in ResultLists : QueryScored(ds)
       \/ FallbackScored
    /\ UNCHANGED <<genVars, idxVars, rag, chatVars, moreVars>>

InitScore == Init /\ ~useCloud

SpecScore == InitScore /\ [][NextScore]_vars

\* A session whose list already holds as many messages as are retained, or
\* one fewer.
OldMessages(n) == [i \in 1..n |-> ChatMessage({n + 1 - i}, "assistant")]

InitAppend ==
    /\ currentModelIndex = 0
    /\ requestQueue = <<>>
    /\ call = [c \in Calls |-> IdleFrame]
    /\ outcome = [c \in Calls |-> Pending]
    /\ obs = [c \in Calls |-> NoObs]
    /\ useCloud = FALSE
    /\ collection = "null"
    /\ newsCollection = "null"
    /\ backend = [up |-> TRUE, exists |-> FALSE, docs |-> {}]
    /\ search = [c \in Calls |-> IdleSearch]
    /\ admin = IdleAdmin
    /\ rag = [c \in Calls |-> IdleRag]
    /\ chat = [c \in Calls |-> IdleChat]
    /\ sink = [c \in Calls |-> <<>>]
    /\ connected = TRUE
    /\ store \in {OldMessages(RetainedMessages - 1), OldMessages(RetainedMessages)}
    /\ uuids = Len(store)
    /\ fetched = NoFetch
    /\ scoring = NoScoring
    /\ adding = [c \in Calls |-> IdleAdding]
    /\ appended = store
    /\ embeddings = NoEmbeddings
    /\ ingest = IdleIngest
    /\ processedArticles = {}
    /\ outlet = [c \in Calls |-> IdleOutlet]
    /\ InitLate

\* addMessage calls on one session, concurrently, with Redis commands that
\* can fail and a connection that comes and goes.
NextAppend ==
    /\ \/ \E a \in Calls : AddMessageStep(a) \/ AddMessageFault(a)
       \/ RedisFlip /\ UNCHANGED <<adding, appended>>
    /\ UNCHANGED <<genVars, idxVars, rag, scoring, embeddings, ingest, processedArticles, outlet,
                   lateVars>>

SpecAppend == InitAppend /\ [][NextAppend]_vars

InitEmbed ==
    /\ currentModelIndex = 0
    /\ requestQueue = <<>>
    /\ call = [c \in Calls |-> IdleFrame]
    /\ outcome = [c \in Calls |-> Pending]
    /\ obs = [c \in Calls |-> NoObs]
    /\ useCloud = FALSE
    /\ collection = "null"
    /\ newsCollection = "null"
    /\ backend = [up |-> TRUE, exists |-> FALSE, docs |-> {}]
    /\ search = [c \in Calls |-> IdleSearch]
    /\ admin = IdleAdmin
    /\ rag = [c \in Calls |-> IdleRag]
    /\ chat = [c \in Calls |-> IdleChat]
    /\ sink = [c \in Calls |-> <<>>]
    /\ uuids = 0
    /\ connected = TRUE
    /\ store = <<>>
    /\ fetched = NoFetch
    /\ scoring = NoScoring
    /\ adding = [c \in Calls |-> IdleAdding]
    /\ appended = <<>>
    /\ embeddings \in [dimension : ConfiguredDimensions, jinaApiKey : BOOLEAN,
                       calls : {<<>>}]
    /\ ingest = IdleIngest
    /\ processedArticles = {}
    /\ outlet = [c \in Calls |-> IdleOutlet]
    /\ InitLate

\* Calls of the embedding service, with or without a key, answered or not.
NextEmbed ==
    /\ \E answered \in BOOLEAN, remote \in RemoteVectors :
         \/ \E text \in Texts : GenerateEmbedding(text, answered, remote)
         \/ \E texts \in Batches : GenerateBatchEmbeddings(texts, answered, remote)
    /\ UNCHANGED <<genVars, idxVars, rag, chatVars, resultVars, adding, appended,
                   ingest, processedArticles, outlet, lateVars>>

SpecEmbed == InitEmbed /\ [][NextEmbed]_vars

InitIngest ==
    /\ currentModelIndex = 0
    /\ requestQueue = <<>>
    /\ call = [c \in Calls |-> IdleFrame]
    /\ outcome = [c \in Calls |-> Pending]
    /\ obs = [c \in Calls |-> NoObs]
    /\ useCloud \in BOOLEAN
    /\ collection = "null"
    /\ newsCollection = "null"
    /\ backend = [up |-> TRUE, exists |-> FALSE, docs |-> {}]
    /\ search = [c \in Calls |-> IdleSearch]
    /\ admin = IdleAdmin
    /\ rag = [c \in Calls |-> IdleRag]
    /\ chat = [c \in Calls |-> IdleChat]
    /\ sink = [c \in Calls |-> <<>>]
    /\ uuids = 0
    /\ connected = TRUE
    /\ store = <<>>
    /\ fetched = NoFetch
    /\ scoring = NoScoring
    /\ adding = [c \in Calls |-> IdleAdding]
    /\ appended = <<>>
    /\ embeddings = NoEmbeddings
    /\ ingest \in {[IdleIngest EXCEPT !.clearsCache = b] : b \in BOOLEAN}
    /\ processedArticles = {}
    /\ outlet = [c \in Calls |-> IdleOutlet]
    /\ InitLate

\* Runs of one NewsIngestionService, one after the other, against a backend
\* that comes and goes; the vector store is initialized between runs.
NextIngest ==
    /\ \/ IngestStep
       \/ /\ ingest.pc = "idle"
          /\ InitializeCalled \/ InitializeReturns
          /\ UNCHANGED <<ingest, processedArticles>>
       \/ BackendFlip /\ UNCHANGED <<ingest, processedArticles>>
    /\ UNCHANGED <<genVars, rag, chatVars, resultVars, adding, appended,
                   embeddings, outlet, lateVars>>

SpecIngest == InitIngest /\ [][NextIngest]_vars

\* Streaming generation calls, each with its socket.
NextSink ==
    /\ \E c \in Queries :
          \/ StreamStep(c)
          \/ \E st \in {"closed", "broken"} : SinkChanges(c, st)
    /\ UNCHANGED <<idxVars, rag, chatVars, resultVars, adding, appended,
                   embeddings, ingest, processedArticles, lateVars>>

SpecSink == InitGen /\ [][NextSink]_vars

\* Generation calls while the connection is tested.
NextProbe ==
    /\ \/ \E c \in Queries :
            \/ \E k \in {"generate", "stream"} : Submit(c, k)
            \/ StartBody(c)
            \/ GenStep(c)
          /\ UNCHANGED probe
       \/ ProbeStep
    /\ UNCHANGED <<idxVars, rag, chatVars, resultVars, adding, appended, embeddings,
                   ingest, processedArticles, outlet, sessions, cron, timer>>

SpecProbe == InitGen /\ [][NextProbe]_vars

\* The transport handlers over the pipeline, with a Redis client whose
\* session commands throw when they fail.
NextChatFault ==
    \/ NextChat
    \/ /\ \E p \in Queries : ActivityThrows(p)
       /\ UNCHANGED <<resultVars, moreVars>>

SpecChatFault == InitChat /\ [][NextChatFault]_vars

\* Calls of SessionManager on one session that exists at the start.
InitSession ==
    /\ currentModelIndex = 0
    /\ requestQueue = <<>>
    /\ call = [c \in Calls |-> IdleFrame]
    /\ outcome = [c \in Calls |-> Pending]
    /\ obs = [c \in Calls |-> NoObs]
    /\ useCloud = FALSE
    /\ collection = "null"
    /\ newsCollection = "null"
    /\ backend = [up |-> TRUE, exists |-> FALSE, docs |-> {}]
    /\ search = [c \in Calls |-> IdleSearch]
    /\ admin = IdleAdmin
    /\ rag = [c \in Calls |-> IdleRag]
    /\ chat = [c \in Calls |-> IdleChat]
    /\ sink = [c \in Calls |-> <<>>]
    /\ uuids = 0
    /\ connected = TRUE
    /\ store = <<>>
    /\ fetched = NoFetch
    /\ scoring = NoScoring
    /\ adding = [c \in Calls |-> IdleAdding]
    /\ appended = <<>>
    /\ embeddings = NoEmbeddings
    /\ ingest = IdleIngest
    /\ processedArticles = {}
    /\ outlet = [c \in Calls |-> IdleOutlet]
    /\ probe = IdleProbe
    /\ sessions = [NoSessions EXCEPT !.record = TRUE]
    /\ cron = IdleCron
    /\ timer = IdleTimer

NextSession ==
    /\ \E a \in Calls : SessionStep(a)
    /\ UNCHANGED <<genVars, idxVars, rag, chatVars, resultVars, adding, appended,
                   embeddings, ingest, processedArticles, outlet, probe, cron, timer>>

SpecSession == InitSession /\ [][NextSession]_vars

\* The runs of the cron service of one process, each with the ingestion it
\* awaits, against a backend that comes and goes.
InitRun == InitIngest /\ ~ingest.clearsCache

NextRun ==
    /\ \/ /\ \E initialized, found, enableCron \in BOOLEAN :
                StartServer(initialized, found, enableCron)
          /\ UNCHANGED <<idxVars, ingest, processedArticles>>
       \/ \E a \in Calls, manual, stored \in BOOLEAN : AwaitedBegins(a, manual, stored)
       \/ \E a \in Calls, stored \in BOOLEAN : AwaitedStep(a, stored)
       \/ BackendFlip /\ UNCHANGED <<ingest, processedArticles, cron>>
    /\ UNCHANGED <<genVars, rag, chatVars, resultVars, adding, appended,
                   embeddings, outlet, probe, sessions, timer>>

SpecRun == InitRun /\ [][NextRun]_vars

\* The cron service over the processes of the server; the ingestion of a
\* run returns or throws.
InitCron == InitRun /\ ~useCloud

NextCron ==
    /\ CronStep
    /\ UNCHANGED <<genVars, idxVars, rag, chatVars, resultVars, adding, appended,
                   embeddings, ingest, processedArticles, outlet, probe, sessions,
                   timer>>

SpecCron == InitCron /\ [][NextCron]_vars

\* getNextRunTime for every interval and every time of the day.
InitTimer ==
    /\ currentModelIndex = 0
    /\ requestQueue = <<>>
    /\ call = [c \in Calls |-> IdleFrame]
    /\ outcome = [c \in Calls |-> Pending]
    /\ obs = [c \in Calls |-> NoObs]
    /\ useCloud = FALSE
    /\ collection = "null"
    /\ newsCollection = "null"
    /\ backend = [up |-> TRUE, exists |-> FALSE, docs |-> {}]
    /\ search = [c \in Calls |-> IdleSearch]
    /\ admin = IdleAdmin
    /\ rag = [c \in Calls |-> IdleRag]
    /\ chat = [c \in Calls |-> IdleChat]
    /\ sink = [c \in Calls |-> <<>>]
    /\ uuids = 0
    /\ connected = TRUE
    /\ store = <<>>
    /\ fetched = NoFetch
    /\ scoring = NoScoring
    /\ adding = [c \in Calls |-> IdleAdding]
    /\ appended = <<>>
    /\ embeddings = NoEmbeddings
    /\ ingest = IdleIngest
    /\ processedArticles = {}
    /\ outlet = [c \in Calls |-> IdleOutlet]
    /\ probe = IdleProbe
    /\ sessions = NoSessions
    /\ cron = IdleCron
    /\ \E i \in Intervals, h \in Hours, m \in Minutes :
          timer = [IdleTimer EXCEPT !.cronInterval = i, !.hour = h, !.minute = m]

NextTimer ==
    /\ \/ StartNewsIngestionCron
       \/ StopNewsIngestionCron
       \/ GetNextRunTime
    /\ UNCHANGED <<genVars, idxVars, rag, chatVars, resultVars, adding, appended,
                   embeddings, ingest, processedArticles, outlet, probe, sessions,
                   cron>>

SpecTimer == InitTimer /\ [][NextTimer]_vars

\* ------------------------------------------------ generation: claims -----

Executing(c) == call[c].pc \in {"inflight", "streaming", "backoff"}

Settled(c) == call[c].pc = "settled"

Failed(c) == outcome[c].status = "err"

Ok(c) == outcome[c].status = "ok"

\* The error thrown in the step, seen from its two states: the one the call
\* is rejected with, or the one the frame holds.
StepError(c) == IF outcome'[c].status = "err" THEN outcome'[c].error ELSE call'[c].lastError

\* A round (the attempts on one model) ends in failure in this step.
RoundEnds(c) == obs'[c].exhausted # obs[c].exhausted

\* C1: at most one generation call executes at any time: while a call is
\* between its first attempt and its settlement (in flight, streaming or in
\* a backoff wait) no other call is, and a call makes its first attempt only
\* once every call that started before it is settled.
C1_OneCallAtATime ==
    /\ Cardinality({c \in Calls : Executing(c)}) <= 1
    /\ \A c, d \in Calls :
         (obs[c].started > 0 /\ obs[c].started < obs[d].started) => Settled(c)
    /\ \A c \in Calls : call[c].pc = "queued" => obs[c].attempted = {}

\* A queued call waits while another call, which already fell back to a
\* second model, sits in a backoff wait.
C1_Witness ==
    \E c, d \in Calls :
        /\ call[c].pc = "backoff"
        /\ obs[c].exhausted # {}
        /\ call[d].pc = "queued"

\* C2: a round of attempts on a model that ends in failure after retryable
\* errors only has made exactly maxRetries + 1 attempts on it (and no round
\* ever makes more), and a call is rejected only once every model has been
\* attempted and has ended its round in failure.
C2_RetryCeiling ==
    /\ [](\A c \in Calls :
            /\ obs[c].roundAttempts <= maxRetries + 1
            /\ Failed(c) => (obs[c].attempted = Models /\ obs[c].exhausted = Models))
    /\ [][\A c \in Calls :
            (RoundEnds(c) /\ obs[c].roundClean /\ StepError(c).kind = "retryable")
                => obs[c].roundAttempts = maxRetries + 1]_vars

\* A call was rejected after retryable errors only: every model took its
\* maxRetries + 1 attempts.
C2_Witness ==
    \E c \in Calls :
        /\ Failed(c)
        /\ outcome[c].error = ModelError("retryable", ActualModelIndex(0, NumModels - 1), maxRetries)
        /\ obs[c].exhausted = Models

\* C3: a call that succeeds returns the output of the model whose attempt
\* succeeded; that model is the preferred one until a later call changes it,
\* and the call that starts next makes its first attempt on it.
C3_FallbackOrdering ==
    \A c \in Calls :
        Ok(c) =>
            \E m \in Models :
                /\ obs[c].succeeded = {m}
                /\ \A i \in 1..Len(outcome[c].text) : outcome[c].text[i] = m
                /\ call[c].kind = "generate" => outcome[c].text = ModelText(m)
                /\ (\A d \in Calls : obs[d].started <= obs[c].started) => currentModelIndex = m
                /\ \A d \in Calls :
                     obs[d].started = obs[c].started + 1 => obs[d].firstModel = {m}

\* The preferred model failed, a later one answered, and the next call made
\* its first attempt on that one.
C3_Witness ==
    \E c, d \in Calls :
        /\ Ok(c)
        /\ call[c].kind = "generate"
        /\ obs[c].firstModel \subseteq obs[c].exhausted
        /\ obs[c].succeeded # obs[c].firstModel
        /\ obs[d].started = obs[c].started + 1
        /\ obs[d].firstModel = obs[c].succeeded

C5_AbortedStreamFails ==
    [][\A c \in Calls :
         (obs'[c].aborted /\ call[c].pc = "streaming") =>
            /\ ~Ok(c)'
            /\ currentModelIndex' = currentModelIndex
            /\ IF StepError(c).kind = "retryable" /\ call[c].attempt < maxRetries
               THEN /\ call'[c].pc = "backoff"
                    /\ call'[c].actualModelIndex = call[c].actualModelIndex
                    /\ call'[c].attempt = call[c].attempt
               ELSE IF call[c].modelIndex + 1 < NumModels
               THEN /\ call'[c].pc = "inflight"
                    /\ call'[c].modelIndex = call[c].modelIndex + 1
                    /\ call'[c].attempt = 0
               ELSE Failed(c)']_vars

\* A stream threw after a chunk, and the call waits to retry the same model.
C5_Witness ==
    \E c \in Calls :
        /\ obs[c].aborted
        /\ call[c].pc = "backoff"
        /\ call[c].kind = "stream"

\* ------------------------------------------------------ index: claims ----

SearchDone(s) == search[s].pc = "done"

\* The result is the single synthetic fallback result.
IsFallback(r) == Len(r) = 1 /\ r[1].source = "System Message" /\ r[1].articleId = 0

\* C6: a search that finds no index handle makes exactly one reconnection
\* attempt (and a search that finds one makes none); a search that is still
\* without a handle afterwards, or whose count of the index is 0, returns
\* exactly the one synthetic fallback result; and no search throws.
C6_SearchFallback ==
    \A s \in Queries :
        /\ search[s].pc # "threw"
        /\ search[s].reconnects = (IF search[s].foundNull THEN 1 ELSE 0)
        /\ (SearchDone(s) /\ (search[s].sawUnavailable \/ search[s].count = {0}))
              => IsFallback(search[s].result)

\* A search found no handle, reconnected, was answered by the server, found
\* the index empty and returned.
C6_Witness ==
    \E s \in Queries :
        /\ SearchDone(s)
        /\ search[s].foundNull
        /\ search[s].reached
        /\ ~search[s].sawUnavailable
        /\ search[s].count = {0}

\* C7: search never returns an empty list: whatever the state of the index,
\* and also when the query yields no ids because a clear ran between the
\* count and the query, a search that returned has at least one result.
C7_NeverEmptyList ==
    \A s \in Queries : SearchDone(s) => Len(search[s].result) >= 1

\* --------------------------------------------------- pipeline: claims ----

Returned(p) == rag[p].pc = "done"

Threw(p) == rag[p].pc = "failed"

\* C8: when no request of the search was answered by the index server (the
\* index is unreachable at query time) and the generation succeeds, the
\* pipeline call returns a response and does not throw, and its sources are
\* exactly one result whose metadata source is "System Message".
C8_UnreachableIndexAnswer ==
    \A p \in Queries :
        (SearchDone(p) /\ ~search[p].reached /\ Ok(p) /\ rag[p].pc # "generate") =>
            /\ Returned(p)
            /\ Len(rag[p].response.sources) = 1
            /\ rag[p].response.sources[1].source = "System Message"

\* answer() returned although the search found no handle and could not
\* reconnect.
C8_Witness ==
    \E p \in Queries :
        /\ Returned(p)
        /\ rag[p].kind = "generate"
        /\ search[p].foundNull
        /\ search[p].sawUnavailable
        /\ ~search[p].reached

\* C9: a pipeline call throws exactly when its generation call was rejected
\* (every model exhausted), with that error; the search never throws,
\* whatever the index server and the embedding provider do.
C9_FailsOnlyOnGeneration ==
    \A p \in Queries :
        /\ search[p].pc # "threw"
        /\ Threw(p) => (Failed(p) /\ obs[p].exhausted = Models /\ rag[p].error = outcome[p].error)
        /\ Returned(p) => Ok(p)

\* A pipeline call returned although the embedding provider failed and the
\* index server answered nothing.
C9_Witness ==
    \E p \in Queries :
        /\ Returned(p)
        /\ search[p].embedding = "local"
        /\ ~search[p].reached

\* C10: in a streaming pipeline call the search has returned before the
\* generation call is queued, hence before any request to a model, and the
\* sources of the response are the list the search returned.
C10_SourcesBeforeGeneration ==
    \A p \in Queries :
        rag[p].kind = "stream" =>
            /\ (call[p].pc # "idle" \/ obs[p].attempted # {}) => SearchDone(p)
            /\ rag[p].pc = "generate" => rag[p].searchResults = search[p].result
            /\ Returned(p) => rag[p].response.sources = search[p].result

\* A streaming call returned the two documents its search found.
C10_Witness ==
    \E p \in Queries :
        /\ Returned(p)
        /\ rag[p].kind = "stream"
        /\ Len(rag[p].response.sources) = 2
        /\ rag[p].response.sources[1].source = "article"
        /\ Len(rag[p].response.response) > 0

\* ------------------------------------------------- transport: claims -----

Streaming(p) == chat[p].transport \in {"sse", "socket"}

IsChunk(e) == e.type \in {"stream-chunk", "chunk"}

IsSources(e) == e.type \in {"stream-sources", "sources"}

IsCompletion(e) == e.type \in {"stream-complete", "complete"}

IsError(e) == e.type \in {"stream-error", "error"}

IsSession(e) == e.type = "session"

Positions(p) == 1..Len(sink[p])

\* C11: in the streaming path (processStreamQuery, driven by the socket
\* handler) no text chunk event reaches the sink before the sources event.
C11_SourcesBeforeChunks ==
    \A p \in Queries :
        chat[p].transport = "socket" =>
            \A i \in Positions(p) :
                IsChunk(sink[p][i]) => \E j \in 1..(i - 1) : IsSources(sink[p][j])

\* C12: a streaming request that completed has emitted session-id, then
\* user-echo, then text chunks, then sources, then completion: no chunk
\* comes after the sources event and nothing comes after completion.
C12_EventOrder ==
    \A p \in Queries :
        (Streaming(p) /\ \E i \in Positions(p) : IsCompletion(sink[p][i])) =>
            /\ IsSession(sink[p][1])
            /\ sink[p][2].type = "stream-user-message"
            /\ \A i, j \in Positions(p) :
                  (IsSources(sink[p][i]) /\ IsChunk(sink[p][j])) => j < i
            /\ \A i \in Positions(p) : IsCompletion(sink[p][i]) => i = Len(sink[p])

\* The events of p after this step begin with its events before it.
EventsKept(p) ==
    /\ Len(sink'[p]) >= Len(sink[p])
    /\ SubSeq(sink'[p], 1, Len(sink[p])) = sink[p]

\* C13: when the pipeline of a streaming request has thrown and the handler
\* has returned, the sink's last event is the error event; nothing is ever
\* emitted after an error event; and no step removes an event already
\* emitted.
C13_ErrorEndsStream ==
    /\ [](\A p \in Queries :
            Streaming(p) =>
               /\ (rag[p].pc = "failed" /\ chat[p].pc # "pipeline") =>
                     (chat[p].pc = "done" /\ Len(sink[p]) > 0 /\ IsError(sink[p][Len(sink[p])]))
               /\ \A i \in Positions(p) : IsError(sink[p][i]) => i = Len(sink[p]))
    /\ [][\A p \in Queries : EventsKept(p)]_vars

\* A socket request whose pipeline threw after chunks had been emitted.
C13_Witness ==
    \E p \in Queries :
        /\ chat[p].transport = "socket"
        /\ chat[p].pc = "done"
        /\ rag[p].pc = "failed"
        /\ \E i \in Positions(p) : IsChunk(sink[p][i])
        /\ IsError(sink[p][Len(sink[p])])

CarriesMessageId(e) ==
    e.type \in {"stream-start", "stream-chunk", "stream-complete", "complete", "response"}

C19_ValidatedBeforePipeline ==
    \A p \in Queries :
        rag[p].pc # "idle" =>
            /\ chat[p].message.body >= 1
            /\ chat[p].message.lead + chat[p].message.body <= MessageLimit

\* -------------------------------------------------- ingestion: claims ----

\* An operation of the ingestion side returns to its caller in this step.
AdminReturnsFrom(pcs) == admin.pc \in pcs /\ admin'.pc = "idle"

\* C15: addDocument, addBatchDocuments, deleteDocument and clearCollection
\* return successfully only if every write or delete they sent to the
\* server was answered.
C15_WriteErrorsPropagate ==
    [][/\ (AdminReturnsFrom({"add", "add-batch", "delete", "clear-get", "clear-delete-ids"})
              /\ admin'.result = "ok") => Answers(admin.handle)
       /\ (AdminReturnsFrom({"clear-recreate"}) /\ admin'.result = "ok") => ~admin.deleteFailed]_vars

\* What getDocumentCount() returns in the state after this step.
CountAfter ==
    IF collection' = "live" /\ backend'.up THEN Cardinality(backend'.docs) ELSE 0

\* C16: when clearCollection returns successfully, in both modes, a count
\* taken at once is 0, the index holds no entry, and the adapter holds a
\* handle the server answers, so that an add is accepted.
C16_ClearLeavesEmptyIndex ==
    [][(AdminReturnsFrom({"clear-get", "clear-delete-ids", "clear-recreate"})
            /\ admin'.result = "ok") =>
          /\ CountAfter = 0
          /\ backend'.docs = {}
          /\ collection' = "live" /\ backend'.up]_vars

\* C17: initialize() never throws; called with a live handle it leaves the
\* adapter with a live handle whether or not the server can be reached;
\* called with no handle, a failed connection leaves the adapter without
\* one.
C17_InitializeIdempotent ==
    [][AdminReturnsFrom({"initialize"}) =>
          /\ admin'.result = "ok"
          /\ collection = "live" => collection' = "live"
          /\ (collection = "null" /\ InitializeAsksServer /\ ~backend.up) =>
                collection' = "null"]_vars

\* ------------------------------------------------------ score: claims ----

\* C18: every search result has 0 <= score <= 1, whatever distance the
\* server reported (above 1, negative or missing), and so has the fallback
\* result.
C18_ScoreRange ==
    \A i \in 1..Len(scoring.scores) :
        0 <= scoring.scores[i] /\ scoring.scores[i] <= Halves(1)

\* ---------------------------------------------------- history: claims ----

\* The step is a getMessages call with this limit.
Fetches(limit) == fetched'.limit = limit /\ store' = store /\ connected' = connected /\ uuids' = uuids

\* C20: getMessages(sessionId, limit) returns the `limit` most recently
\* appended messages of the session, the most recent first.
C20_MostRecentFirst ==
    [][\A limit \in 1..MaxMessages :
          (Fetches(limit) /\ fetched' # fetched /\ connected) =>
              fetched'.messages = LRange(store, limit)]_vars

\* C21: once every addMessage call on the session has completed, its list
\* holds at most 100 messages, and they are the most recently appended ones.
C21_BoundedHistory ==
    (\A a \in Calls : adding[a].pc \in {"idle", "returned"}) =>
        /\ Len(store) <= RetainedMessages
        /\ store = LRange(appended, Len(store))

\* Two local embeddings of the same text are the same vector.
SameTextSameVector ==
    \A i, j \in 1..Len(embeddings.calls) :
        LET a == embeddings.calls[i]
            b == embeddings.calls[j]
        IN (a.by = "local" /\ b.by = "local" /\ a.text = b.text) => a.vector = b.vector

\* C22: the embedding fallback is deterministic: for any text, two independent
\* calls (single or as an element of a batch, with or without a key) return
\* identical vectors, each of the configured embedding dimension.
C22_DeterministicFallback ==
    /\ SameTextSameVector
    /\ \A i \in 1..Len(embeddings.calls) :
         embeddings.calls[i].by = "local" =>
             Len(embeddings.calls[i].vector) = embeddings.dimension

\* C23: when clearAndReingest has completed, every article that was in the
\* index before the clear and is still served by the feeds, within the
\* max-articles limit, is in the index again, also when the same service
\* instance has ingested it before (no call of the vector store failed
\* during the run).
C23_ReingestsAll ==
    (ingest.pc = "idle" /\ ingest.cleared /\ ingest.completed /\ ~ingest.failed) =>
        (ingest.before \cap FirstN(ingest.feed, maxArticles)) \subseteq backend.docs

\* ------------------------------------------- generation: more claims -----

\* The step invokes the operation for call c.
MakesAttempt(c) == call'[c].pc = "inflight" /\ call'[c] # call[c]

\* The calls submitted and not finished, in the order of their submission,
\* are the bodies chained and not settled.
Unfinished(c) == call[c].pc \notin {"idle", "settled"}

\* C24: generation calls are served in FIFO order: of the calls submitted
\* and not finished only the earliest submitted has begun executing, and a
\* call makes an attempt only when every call submitted before it has
\* finished.
C24_Fifo ==
    /\ [](/\ \A c \in Calls :
               Unfinished(c) <=> (\E i \in 1..Len(requestQueue) : requestQueue[i] = c)
          /\ \A i \in 2..Len(requestQueue) : call[requestQueue[i]].pc = "queued")
    /\ [][\A c \in Calls :
            MakesAttempt(c) => (requestQueue # <<>> /\ Head(requestQueue) = c)]_vars

\* The call submitted first streams while the call submitted after it
\* waits, whatever their numbers.
C24_Witness ==
    /\ requestQueue = <<NumCalls, 1>>
    /\ call[NumCalls].pc = "streaming"
    /\ call[NumCalls].fullResponse # <<>>
    /\ call[1].pc = "queued"

\* The first k models of the cycle that begins with p.
CycleFrom(p, k) == {(p + i) % NumModels : i \in 0..(k - 1)}

\* C26: the models of a call are attempted in cyclic order p, p+1, ...,
\* p+N-1 (mod N), p being the preferred index when the call starts
\* executing: each attempt is made on the model that follows, in that cycle,
\* the models whose rounds have ended, and a model whose round has ended or
\* that was left for another one is never attempted again.
C26_CyclicOrder ==
    [][\A c \in Calls :
         MakesAttempt(c) =>
            LET m == call'[c].actualModelIndex
                p == CHOOSE x \in obs'[c].firstModel : TRUE
                ended == obs'[c].exhausted
            IN /\ obs[c].attempted = {} => p = currentModelIndex
               /\ ended = CycleFrom(p, Cardinality(ended))
               /\ m = (p + Cardinality(ended)) % NumModels
               /\ m \notin ended
               /\ m \in obs[c].attempted => m = call[c].actualModelIndex]_vars

\* A call that began with the last model as the preferred one has wrapped
\* around to the first and gone on to the second.
C26_Witness ==
    \E c \in Calls :
        /\ obs[c].firstModel = {NumModels - 1}
        /\ obs[c].exhausted = {NumModels - 1, 0}
        /\ call[c].pc = "inflight"
        /\ call[c].actualModelIndex = 1

\* The step is the failure of an attempt of call c.
AttemptFails(c) ==
    /\ call[c].pc \in {"inflight", "streaming"}
    /\ call'[c].pc = "backoff" \/ RoundEnds(c)

\* After the step call c is making the first attempt on its next model, or
\* is rejected.
MovesOn(c) ==
    \/ /\ call'[c].pc = "inflight"
       /\ call'[c].modelIndex = call[c].modelIndex + 1
       /\ call'[c].attempt = 0
    \/ Failed(c)'

\* C27: a non-retryable failure ends the attempts on its model and the call
\* moves on to the next model in the same step, without a wait; a backoff
\* wait begins only after a retryable failure of an attempt that is not the
\* last on its model, and ends only with the next attempt on the same model.
C27_BackoffBetweenRetries ==
    [][\A c \in Calls :
         /\ (AttemptFails(c) /\ StepError(c).kind = "terminal") =>
               (RoundEnds(c) /\ MovesOn(c))
         /\ (AttemptFails(c) /\ call[c].attempt = maxRetries) =>
               (RoundEnds(c) /\ MovesOn(c))
         /\ (call'[c].pc = "backoff" /\ call[c].pc # "backoff") =>
               /\ AttemptFails(c)
               /\ StepError(c).kind = "retryable"
               /\ call[c].attempt < maxRetries
               /\ ~RoundEnds(c)
         /\ (call[c].pc = "backoff" /\ call'[c].pc # "backoff") =>
               /\ call'[c].pc = "inflight"
               /\ call'[c].actualModelIndex = call[c].actualModelIndex
               /\ call'[c].modelIndex = call[c].modelIndex
               /\ call'[c].attempt = call[c].attempt + 1]_vars

\* A call whose first attempt failed with a terminal error is making the
\* first attempt on the next model.
C27_Witness ==
    \E c \in Calls :
        /\ call[c].pc = "inflight"
        /\ call[c].modelIndex = 1
        /\ call[c].attempt = 0
        /\ call[c].lastError = ModelError("terminal", call[c].lastError.model, 0)
        /\ Cardinality(obs[c].exhausted) = 1

\* C28: every generation call terminates, by returning or failing, provided
\* each attempt and each backoff wait does; its attempts are numbered
\* (model, attempt) in increasing order with at most NumModels models and
\* maxRetries + 1 attempts on each, so that it makes at most
\* NumModels x (maxRetries + 1) of them.
C28_Terminates ==
    /\ \A c \in Calls : Unfinished(c) ~> Settled(c)
    /\ [](\A c \in Calls :
            /\ call[c].modelIndex < NumModels
            /\ call[c].attempt <= maxRetries
            /\ obs[c].roundAttempts <= maxRetries + 1
            /\ Cardinality(obs[c].exhausted) * (maxRetries + 1) + obs[c].roundAttempts
                  <= NumModels * (maxRetries + 1))
    /\ [][\A c \in Calls :
            MakesAttempt(c) =>
                \/ /\ call[c].pc = "queued"
                   /\ call'[c].modelIndex = 0
                   /\ call'[c].attempt = 0
                \/ /\ call[c].pc # "queued"
                   /\ call'[c].modelIndex = call[c].modelIndex + 1
                   /\ call'[c].attempt = 0
                \/ /\ call[c].pc # "queued"
                   /\ call'[c].modelIndex = call[c].modelIndex
                   /\ call'[c].attempt = call[c].attempt + 1]_vars

\* The call that started last was rejected after the last attempt on the
\* last of its models.
C28_Witness ==
    \E c \in Calls :
        /\ Failed(c)
        /\ call[c].kind = "stream"
        /\ obs[c].started = NumCalls
        /\ outcome[c].error.kind = "retryable"
        /\ outcome[c].error.attempt = maxRetries
        /\ outcome[c].error.model = ActualModelIndex(currentModelIndex, NumModels - 1)

\* ------------------------------------------------- the sink: claims ------

\* The step is an emit to the socket of call c that throws.
EmitThrows(c) == outlet'[c].thrown # outlet[c].thrown

\* C25: a sink that fails while chunks are streamed is no concern of the
\* adapter: the failed emit is not a failed attempt, it triggers no retry
\* and no model fallback, and it does not fail the call.
C25_SinkFailureIgnored ==
    [][\A c \in Queries :
         EmitThrows(c) =>
            /\ call'[c].pc = "streaming"
            /\ call'[c].actualModelIndex = call[c].actualModelIndex
            /\ call'[c].attempt = call[c].attempt
            /\ ~RoundEnds(c)
            /\ ~Failed(c)']_vars

\* C30: the text a successful generateStreaming call returns is the
\* in-order concatenation of all chunks emitted to the sink during the
\* call, the chunks of its failed attempts included.
C30_TextIsEmittedChunks ==
    \A c \in Queries :
        (Ok(c) /\ call[c].kind = "stream") => outcome[c].text = outlet[c].chunks

\* ---------------------------------------------- index: more claims -------

\* The adapter is ready when it holds a collection, uninitialized or
\* unavailable when it holds none.
Ready == collection # "null"

\* An initialize() called on the adapter returns, having succeeded.
InitializeSucceeds ==
    /\ admin.pc = "initialize"
    /\ admin'.pc = "idle"
    /\ InitializeAsksServer => backend.up

\* A request of search s to the server (count, query) comes back failed.
SearchRequestFails(s) ==
    /\ search[s].pc \in {"count", "query"}
    /\ search'[s].pc # search[s].pc
    /\ ~Answers(search[s].handle)

\* The add of an addDocument comes back failed.
AddRequestFails == admin.pc = "add" /\ admin'.pc = "idle" /\ ~Answers(admin.handle)

\* A successful initialize leaves the adapter ready.
ReadyAfterInitialize == [][InitializeSucceeds => Ready']_vars

\* A search begun without a collection attempts a reconnection.
ReconnectWhenUnavailable ==
    [][\A s \in Queries :
         (search[s].pc = "idle" /\ search'[s].pc # "idle" /\ ~Ready) =>
             (search'[s].pc = "initialize" /\ search'[s].reconnects = 1)]_vars

\* C29: the index adapter is the state machine {uninitialized, ready,
\* unavailable}: a successful initialize moves it to ready, a backend
\* failure of an operation performed while ready (search, count, add) moves
\* it to unavailable, and the next search issued while unavailable attempts
\* a reconnect.
C29_AdapterStateMachine ==
    /\ ReadyAfterInitialize
    /\ ReconnectWhenUnavailable
    /\ [][(Ready /\ (AddRequestFails \/ \E s \in Queries : SearchRequestFails(s)))
             => ~Ready']_vars

\* ------------------------------------------ generation: the probe -------

\* C31: within a generation call every model is attempted before the call
\* fails, and no model is attempted in two separate rounds, also when
\* testConnection changes the preferred index while the call is between
\* models.
C31_EveryModelOnce ==
    /\ [](\A c \in Queries : Failed(c) => obs[c].attempted = Models)
    /\ [][\A c \in Queries :
            (MakesAttempt(c) /\ call'[c].attempt = 0) =>
                call'[c].actualModelIndex \notin obs[c].attempted]_vars

\* C32: a generation call that fails does not block the queue: it has left
\* the chain, every call submitted after it starts and returns or fails,
\* and a promise that is settled stays as it was settled.
C32_FailureDoesNotBlock ==
    /\ \A c, d \in Calls : (Failed(c) /\ call[d].pc = "queued") ~> Settled(d)
    /\ [](\A c \in Calls :
            /\ Failed(c) => \A i \in 1..Len(requestQueue) : requestQueue[i] # c
            /\ Settled(c) <=> outcome[c].status # "pending")
    /\ [][\A c \in Calls :
            outcome[c].status # "pending" => outcome'[c] = outcome[c]]_vars

\* A call was rejected and the call that started after it returned.
C32_Witness ==
    \E c, d \in Calls :
        /\ Failed(c)
        /\ Ok(d)
        /\ obs[d].started = obs[c].started + 1
        /\ call[d].kind = "generate"

\* ------------------------------------------------ chat: more claims ------

\* C33: a chat turn that fails in the pipeline leaves the session history
\* unchanged: once the handlers have returned, every user message of the
\* stored history is followed by the assistant message of its turn.
C33_NoUserMessageWithoutReply ==
    (\A p \in Queries : chat[p].pc \in {"idle", "done"}) =>
        \A i \in 1..Len(store) :
            store[i].role = "user" => (i > 1 /\ store[i - 1].role = "assistant")

\* C34: in a socket request the completion and the error event exclude each
\* other: a request for which stream-complete was emitted gets no
\* stream-error, also when the session-activity update after the completion
\* fails.
C34_CompleteExcludesError ==
    \A p \in Queries :
        chat[p].transport = "socket" =>
            ~\E i, j \in Positions(p) :
                 /\ sink[p][i].type = "stream-complete"
                 /\ sink[p][j].type = "stream-error"

\* ------------------------------------------------ sessions: claims -------

\* No call on the session is in flight.
SessionQuiet == \A a \in Calls : sessions.calls[a].pc \in {"idle", "done"}

\* C35: deleteSession is final: once a deleteSession of the session has
\* completed and no call on it is in flight, the session has no record (so
\* validateSession returns false): a concurrent read-modify-write cannot
\* re-create it.
C35_DeleteIsFinal ==
    (sessions.deleted /\ SessionQuiet) => ~sessions.record

\* ------------------------------------------------- cron service: claims --

\* The calls of runNewsIngestion whose run is in progress.
InProgress == {a \in Calls : cron.runs[a] = "ingesting"}

\* C36: at most one news ingestion run is in progress at any time: a
\* scheduled or manual trigger that arrives while a run is in progress
\* returns without starting a second run and without changing any run
\* counter.
C36_OneRunAtATime ==
    /\ [](Cardinality(InProgress) <= 1)
    /\ [][\A a \in Calls :
            (InProgress # {} /\ cron.runs[a] = "idle" /\ cron'.runs[a] # "idle") =>
                (cron'.runs[a] = "refused" /\ cron'.stats = cron.stats)]_vars

C36_Witness ==
    \E a, b \in Calls : cron.runs[a] = "ingesting" /\ cron.runs[b] = "refused"

\* C37: in every reachable state of the cron service totalRuns =
\* successfulRuns + failedRuns + (1 if isRunning else 0), the three being
\* numbers.
C37_RunsAddUp ==
    /\ cron.stats.totalRuns # {}
    /\ cron.stats.totalRuns =
         Plus(Plus(cron.stats.successfulRuns, cron.stats.failedRuns),
              IF cron.stats.isRunning THEN Num(1) ELSE Num(0))

\* C38: a run is counted as successful only if every write to the vector
\* index during that run succeeded: the step that increments successfulRuns
\* ends an ingestion none of whose calls of the vector store failed.
C38_SuccessNeedsEveryWrite ==
    [][cron'.stats.successfulRuns # cron.stats.successfulRuns => ~ingest'.failed]_vars

\* C39: when ingestNewsArticles returns, every article link recorded as
\* processed has had its chunk added to the vector index. Stated for the
\* first ingestion of a service, before which nothing was processed and
\* after whose clear nothing is deleted: the chunks added are the documents
\* of the index.
C39_ProcessedAreIndexed ==
    (ingest.pc = "idle" /\ ingest.completed /\ ingest.runs = 1) =>
        processedArticles \subseteq backend.docs

\* C40: while a cron job is scheduled, getNextRunTime() returns the next
\* firing time of the cron expression that minutesToCronExpression produces
\* for the configured interval: a time strictly later than now, for every
\* interval and every current minute and hour.
C40_NextFiring ==
    (timer.cronJob /\ timer.nextRun # <<>>) =>
        /\ timer.nextRun[1] > timer.at
        /\ timer.nextRun[1] =
             FiresFrom(minutesToCronExpression(timer.cronInterval), timer.at + 1)

====
